---- MODULE Spec2Model ----
(***************************************************************************)
(* ShapeKDTree (src/librender/skdtree.cpp): primitive registry, triangle   *)
(* accelerator table, scalar and packet ray traversal.                     *)
(*                                                                         *)
(* Float values are fixed-point integers ("ticks"): One ticks stand for    *)
(* 1.0f, Epsilon ticks for the Float constant Epsilon.  C++ indices are    *)
(* 0-based; a C++ array a[i] is the sequence element a[i+1].               *)
(***************************************************************************)
EXTENDS Integers, Sequences, FiniteSets, TLC

VARIABLES
    m_shapes,        \* std::vector<const Shape *>
    m_shapeMap,      \* std::vector<SizeType>
    m_triangleFlag,  \* std::vector<bool>
    m_triAccel,      \* TriAccel *, << >> while NULL
    m_nodes,         \* KDNode *, << >> while NULL
    m_indices,       \* index buffer filled by the tree builder
    m_aabb,          \* bounding box of the tree
    refCount,        \* Object::m_refCount of every shape
    buildCalls,      \* number of build() calls made so far
    buildIdx,        \* value of idx when build() last reached KDAssert
    lastCall,        \* the call that ran last and how it ended
    query,           \* the query in progress or finished, with its output
    alive,           \* FALSE once ~ShapeKDTree has run
    stats,           \* the static StatsCounter objects of skdtree.cpp
    other,           \* output of a second caller's query
    m_pool,          \* BDPTRenderer::m_pool, the MemoryPool of a renderer
    render           \* the BDPTRenderer::process call in progress

vars ==
    << m_shapes, m_shapeMap, m_triangleFlag, m_triAccel, m_nodes, m_indices,
       m_aabb, refCount, buildCalls, buildIdx, alive, lastCall, query, stats,
       other, m_pool, render >>

regVars ==
    << m_shapes, m_shapeMap, m_triangleFlag, m_triAccel, m_nodes, m_indices,
       m_aabb, refCount, buildCalls, buildIdx, alive >>

-----------------------------------------------------------------------------
(* Bounds of the model *)

MaxShapes ==
    3

MaxBuildCalls ==
    2

\* queries counted by the statistics counters in one behaviour
MaxTraced ==
    2

-----------------------------------------------------------------------------
(* Numeric representation *)

Epsilon ==
    64

One ==
    16 * Epsilon

Infinity ==
    One * One

\* 0xFFFFFFFF, written as the 32-bit word read as a signed integer
KNoTriangleFlag ==
    -1

\* SizeType / IndexType are uint32_t; the primitive counts of the model stay
\* far below 2^32, where the addition does not wrap
SizeTypeAdd(a, b) ==
    a + b

Axes ==
    0 .. 2

Coord(p, axis) ==
    p[axis + 1]

Max2(a, b) ==
    IF a > b THEN a ELSE b

Min2(a, b) ==
    IF a < b THEN a ELSE b

Abs(a) ==
    IF a < 0 THEN -a ELSE a

Last(s) ==
    s[Len(s)]

-----------------------------------------------------------------------------
(* The shapes a caller may hand to the index.  A triangle is modelled as an *)
(* axis-aligned planar patch: k is the axis of its normal (TriAccel::k),    *)
(* min/max its extent, with min[k] = max[k].  An atomic shape is one patch  *)
(* intersected through the shape's own method.                              *)

Patch(axis, lo, hi) ==
    [k |-> axis, min |-> lo, max |-> hi]

NoGeom ==
    [k |-> 0, min |-> <<0, 0, 0>>, max |-> <<0, 0, 0>>]

Shapes ==
    {"meshA", "rectB", "meshC", "rectD", "meshE", "group"}

isCompound(shape) ==
    shape = "group"

derivesFromTriMesh(shape) ==
    shape \in {"meshA", "meshC", "meshE"}

getTriangles(shape) ==
    CASE shape = "meshA" ->
            << Patch(0, <<2, 0, 0>>, <<2, 8, 8>>),
               Patch(2, <<96, 96, 128>>, <<160, 160, 128>>) >>
      [] shape = "meshC" ->
            << Patch(0, <<2176, 64, 64>>, <<2176, 128, 128>>),
               Patch(0, <<2240, 160, 160>>, <<2240, 224, 224>>) >>
      [] OTHER -> << >>

getTriangleCount(shape) ==
    Len(getTriangles(shape))

ShapeGeom(shape) ==
    CASE shape = "rectB" -> Patch(1, <<16, 32, 16>>, <<48, 32, 48>>)
      [] shape = "rectD" -> Patch(1, <<2176, 160, 128>>, <<2240, 160, 192>>)
      [] OTHER -> NoGeom

-----------------------------------------------------------------------------
(* ShapeKDTree::ShapeKDTree *)

NoCall ==
    [op |-> "none", arg |-> "", outcome |-> "ok"]

NoQuery ==
    [pc |-> "idle"]

\* lines 47-48 and 479-480: the counters start at zero
NoStats ==
    [raysTraced |-> 0, shadowRaysTraced |-> 0, coherentPackets |-> 0,
     incoherentPackets |-> 0]

\* MemoryPool::MemoryPool: no edge and no vertex is handed out
EmptyPool ==
    [edges |-> 0, vertices |-> 0]

\* no work unit is being processed
NoWork ==
    [pc |-> "idle"]

\* Object::getRefCount of a shape before any index holds it: 0 for a shape
\* nothing else refers to, 1 for a shape its scene owns
InitialRefCounts ==
    {0, 1}

Init ==
    /\ m_shapes = << >>
    /\ m_shapeMap = << 0 >>
    /\ m_triangleFlag = << >>
    /\ m_triAccel = << >>
    /\ m_nodes = << >>
    /\ m_indices = << >>
    /\ m_aabb = [valid |-> FALSE, min |-> <<0, 0, 0>>, max |-> <<0, 0, 0>>]
    /\ \E c \in InitialRefCounts : refCount = [s \in Shapes |-> c]
    /\ buildCalls = 0
    /\ buildIdx = 0
    /\ lastCall = NoCall
    /\ query = NoQuery
    /\ alive = TRUE
    /\ stats = NoStats
    /\ other = NoQuery
    /\ m_pool = EmptyPool
    /\ render = NoWork

isBuilt ==
    m_nodes # << >>

getPrimitiveCount(shapeMap) ==
    Last(shapeMap)

-----------------------------------------------------------------------------
(* ShapeKDTree::addShape *)

AddShape_NoBuiltCheck(shape) ==
    /\ alive
    /\ IF isCompound(shape)
       THEN /\ lastCall' = [op |-> "addShape", arg |-> shape, outcome |-> "Error"]
            /\ UNCHANGED << regVars, query, stats, other, m_pool, render >>
       ELSE /\ Len(m_shapes) < MaxShapes
            /\ m_shapeMap' = Append(m_shapeMap,
                   IF derivesFromTriMesh(shape) THEN getTriangleCount(shape) ELSE 1)
            /\ m_triangleFlag' = Append(m_triangleFlag, derivesFromTriMesh(shape))
            /\ refCount' = [refCount EXCEPT ![shape] = @ + 1]
            /\ m_shapes' = Append(m_shapes, shape)
            /\ lastCall' = [op |-> "addShape", arg |-> shape, outcome |-> "ok"]
            /\ UNCHANGED << m_triAccel, m_nodes, m_indices, m_aabb, buildCalls,
                            buildIdx, query, alive, stats, other, m_pool, render >>

AddShape_CompoundFallsThrough(shape) ==
    /\ alive
    /\ IF isBuilt
       THEN /\ lastCall' = [op |-> "addShape", arg |-> shape, outcome |-> "AssertFailed"]
            /\ UNCHANGED << regVars, query, stats, other, m_pool, render >>
       ELSE /\ Len(m_shapes) < MaxShapes
            /\ m_shapeMap' = Append(m_shapeMap,
                   IF derivesFromTriMesh(shape) THEN getTriangleCount(shape) ELSE 1)
            /\ m_triangleFlag' = Append(m_triangleFlag, derivesFromTriMesh(shape))
            /\ refCount' = [refCount EXCEPT ![shape] = @ + 1]
            /\ m_shapes' = Append(m_shapes, shape)
            /\ lastCall' = [op |-> "addShape", arg |-> shape,
                            outcome |-> IF isCompound(shape) THEN "Error" ELSE "ok"]
            /\ UNCHANGED << m_triAccel, m_nodes, m_indices, m_aabb, buildCalls,
                            buildIdx, query, alive, stats, other, m_pool, render >>

AddShape_MeshCountsOne(shape) ==
    /\ alive
    /\ IF isBuilt
       THEN /\ lastCall' = [op |-> "addShape", arg |-> shape, outcome |-> "AssertFailed"]
            /\ UNCHANGED << regVars, query, stats, other, m_pool, render >>
       ELSE IF isCompound(shape)
       THEN /\ lastCall' = [op |-> "addShape", arg |-> shape, outcome |-> "Error"]
            /\ UNCHANGED << regVars, query, stats, other, m_pool, render >>
       ELSE /\ Len(m_shapes) < MaxShapes
            /\ m_shapeMap' = Append(m_shapeMap, 1)
            /\ m_triangleFlag' = Append(m_triangleFlag, derivesFromTriMesh(shape))
            /\ refCount' = [refCount EXCEPT ![shape] = @ + 1]
            /\ m_shapes' = Append(m_shapes, shape)
            /\ lastCall' = [op |-> "addShape", arg |-> shape, outcome |-> "ok"]
            /\ UNCHANGED << m_triAccel, m_nodes, m_indices, m_aabb, buildCalls,
                            buildIdx, query, alive, stats, other, m_pool, render >>

\* Assert(!isBuilt()) and Log(EError, ...) raise an exception: the call ends
\* there and nothing after them runs.
AddShape(shape) ==
    /\ alive
    /\ IF isBuilt
       THEN /\ lastCall' = [op |-> "addShape", arg |-> shape, outcome |-> "AssertFailed"]
            /\ UNCHANGED << regVars, query, stats, other, m_pool, render >>
       ELSE IF isCompound(shape)
       THEN /\ lastCall' = [op |-> "addShape", arg |-> shape, outcome |-> "Error"]
            /\ UNCHANGED << regVars, query, stats, other, m_pool, render >>
       ELSE /\ Len(m_shapes) < MaxShapes
            /\ m_shapeMap' = Append(m_shapeMap,
                   IF derivesFromTriMesh(shape) THEN getTriangleCount(shape) ELSE 1)
            /\ m_triangleFlag' = Append(m_triangleFlag, derivesFromTriMesh(shape))
            /\ refCount' = [refCount EXCEPT ![shape] = @ + 1]
            /\ m_shapes' = Append(m_shapes, shape)
            /\ lastCall' = [op |-> "addShape", arg |-> shape, outcome |-> "ok"]
            /\ UNCHANGED << m_triAccel, m_nodes, m_indices, m_aabb, buildCalls,
                            buildIdx, query, alive, stats, other, m_pool, render >>

-----------------------------------------------------------------------------
(* The tree builder (SAHKDTree3D::buildInternal) and the accessors it uses. *)
(* A tree has at most three inner nodes: node 1 is the root, the children  *)
(* of node n are nodes 2n (left) and 2n+1 (right, the left child's         *)
(* sibling).  A plan names the split of nodes 1, 2 and 3.                  *)

NoSplit ==
    [axis |-> -1, split |-> 0]

Split(a, s) ==
    [axis |-> a, split |-> s]

Plans ==
    { << NoSplit, NoSplit, NoSplit >>,
      << Split(0, 1024), NoSplit, NoSplit >>,
      << Split(0, 1024), Split(2, 64), Split(0, 2192) >>,
      << Split(2, 64), NoSplit, Split(0, 1024) >>,
      << Split(1, 32), Split(0, 24), NoSplit >>,
      << Split(1, 160), NoSplit, Split(2, 176) >> }

\* std::lower_bound(m_shapeMap, idx + 1) - 1
findShape(shapeMap, g) ==
    (CHOOSE p \in 1 .. Len(shapeMap) :
        /\ shapeMap[p] >= g + 1
        /\ \A q \in 1 .. (p - 1) : shapeMap[q] < g + 1) - 2

\* geometry of global primitive g
PrimGeom(shapes, shapeMap, flags, g) ==
    LET s == findShape(shapeMap, g)
    IN  IF flags[s + 1]
        THEN getTriangles(shapes[s + 1])[g - shapeMap[s + 1] + 1]
        ELSE ShapeGeom(shapes[s + 1])

AabbMargin ==
    1

EmptyAABB ==
    [valid |-> FALSE, min |-> <<0, 0, 0>>, max |-> <<0, 0, 0>>]

\* bounding box of all primitives, slightly enlarged
SceneAABB(geoms) ==
    IF geoms = << >>
    THEN EmptyAABB
    ELSE LET lo(a) == CHOOSE v \in {Coord(geoms[i].min, a) : i \in DOMAIN geoms} :
                        \A i \in DOMAIN geoms : v <= Coord(geoms[i].min, a)
             hi(a) == CHOOSE v \in {Coord(geoms[i].max, a) : i \in DOMAIN geoms} :
                        \A i \in DOMAIN geoms : v >= Coord(geoms[i].max, a)
         IN  [valid |-> TRUE,
              min |-> << lo(0) - AabbMargin, lo(1) - AabbMargin, lo(2) - AabbMargin >>,
              max |-> << hi(0) + AabbMargin, hi(1) + AabbMargin, hi(2) + AabbMargin >>]

NodeIds ==
    1 .. 7

PlanOf(plan, n) ==
    IF n <= 3 THEN plan[n] ELSE NoSplit

RECURSIVE NodeExists(_, _)
NodeExists(plan, n) ==
    IF n = 1 THEN TRUE
    ELSE /\ NodeExists(plan, n \div 2)
         /\ PlanOf(plan, n \div 2) # NoSplit

IsInner(plan, n) ==
    NodeExists(plan, n) /\ PlanOf(plan, n) # NoSplit

\* the box of node n: its parent's box cut at the parent's split plane
RECURSIVE NodeBox(_, _, _)
NodeBox(plan, aabb, n) ==
    IF n = 1 THEN aabb
    ELSE LET pb == NodeBox(plan, aabb, n \div 2)
             sp == PlanOf(plan, n \div 2)
         IN  IF n % 2 = 0
             THEN [pb EXCEPT !.max[sp.axis + 1] = sp.split]
             ELSE [pb EXCEPT !.min[sp.axis + 1] = sp.split]

\* every split plane cuts the box of its node
PlanFits(plan, aabb) ==
    \A n \in 1 .. 3 :
        IsInner(plan, n) =>
            LET b == NodeBox(plan, aabb, n)
                sp == PlanOf(plan, n)
            IN  /\ aabb.valid
                /\ Coord(b.min, sp.axis) < sp.split
                /\ sp.split < Coord(b.max, sp.axis)

Overlaps(geom, box) ==
    \A a \in Axes :
        /\ Coord(geom.min, a) <= Coord(box.max, a)
        /\ Coord(geom.max, a) >= Coord(box.min, a)

\* the primitives of a leaf, in increasing order of their global index
RECURSIVE LeafPrims(_, _, _)
LeafPrims(geoms, box, g) ==
    IF g >= Len(geoms) THEN << >>
    ELSE (IF Overlaps(geoms[g + 1], box) THEN << g >> ELSE << >>)
            \o LeafPrims(geoms, box, g + 1)

RECURSIVE LeafOrder(_, _)
LeafOrder(plan, n) ==
    IF IsInner(plan, n)
    THEN LeafOrder(plan, 2 * n) \o LeafOrder(plan, 2 * n + 1)
    ELSE << n >>

\* index buffer: the leaves' primitive lists, leaf after leaf
RECURSIVE IndexBuffer(_, _, _, _, _)
IndexBuffer(plan, aabb, geoms, leaves, i) ==
    IF i > Len(leaves) THEN << >>
    ELSE LeafPrims(geoms, NodeBox(plan, aabb, leaves[i]), 0)
            \o IndexBuffer(plan, aabb, geoms, leaves, i + 1)

AbsentNode ==
    [kind |-> "absent", axis |-> 0, split |-> 0, start |-> 0, end |-> 0]

buildInternal(shapes, shapeMap, flags, plan) ==
    LET primCount == getPrimitiveCount(shapeMap)
        geoms == [g \in 1 .. primCount |-> PrimGeom(shapes, shapeMap, flags, g - 1)]
        aabb == SceneAABB(geoms)
        leaves == LeafOrder(plan, 1)
        startOf(n) ==
            LET i == CHOOSE j \in 1 .. Len(leaves) : leaves[j] = n
            IN  Len(IndexBuffer(plan, aabb, geoms, SubSeq(leaves, 1, i - 1), 1))
        node(n) ==
            IF ~NodeExists(plan, n) THEN AbsentNode
            ELSE IF IsInner(plan, n)
            THEN [kind |-> "inner", axis |-> PlanOf(plan, n).axis,
                  split |-> PlanOf(plan, n).split, start |-> 0, end |-> 0]
            ELSE [kind |-> "leaf", axis |-> 0, split |-> 0,
                  start |-> startOf(n),
                  end |-> startOf(n)
                          + Len(LeafPrims(geoms, NodeBox(plan, aabb, n), 0))]
    IN  [nodes |-> [n \in NodeIds |-> node(n)],
         indices |-> IndexBuffer(plan, aabb, geoms, leaves, 1),
         aabb |-> aabb]

-----------------------------------------------------------------------------
(* ShapeKDTree::build *)

\* variant: every entry adds the unsummed entry before it
PrefixSum_NotCumulative(shapeMap, i) ==
    [p \in DOMAIN shapeMap |->
        IF p <= i THEN shapeMap[p] ELSE SizeTypeAdd(shapeMap[p], shapeMap[p - 1])]

\* for (i=1; i<m_shapeMap.size(); ++i) m_shapeMap[i] += m_shapeMap[i-1];
RECURSIVE PrefixSum(_, _)
PrefixSum(shapeMap, i) ==
    IF i >= Len(shapeMap) THEN shapeMap
    ELSE PrefixSum([shapeMap EXCEPT ![i + 1] = SizeTypeAdd(@, shapeMap[i])], i + 1)

\* variant: the two index fields are exchanged
TriangleRecord_IndicesSwapped(shape, i, j) ==
    [k |-> getTriangles(shape)[j + 1].k, shapeIndex |-> j, primIndex |-> i,
     geom |-> getTriangles(shape)[j + 1]]

\* TriAccel::load(v0, v1, v2), then the two index fields
TriangleRecord(shape, i, j) ==
    [k |-> getTriangles(shape)[j + 1].k, shapeIndex |-> i, primIndex |-> j,
     geom |-> getTriangles(shape)[j + 1]]

\* memset(0); shapeIndex = i; k = KNoTriangleFlag
SentinelRecord(i) ==
    [k |-> KNoTriangleFlag, shapeIndex |-> i, primIndex |-> 0, geom |-> NoGeom]

\* variant: the loop over the triangles stops one short
RECURSIVE MeshRecords_OneShort(_, _, _)
MeshRecords_OneShort(shape, i, j) ==
    IF j + 1 >= getTriangleCount(shape) THEN << >>
    ELSE << TriangleRecord(shape, i, j) >> \o MeshRecords_OneShort(shape, i, j + 1)

RECURSIVE MeshRecords(_, _, _)
MeshRecords(shape, i, j) ==
    IF j >= getTriangleCount(shape) THEN << >>
    ELSE << TriangleRecord(shape, i, j) >> \o MeshRecords(shape, i, j + 1)

\* the loop over m_shapes of build(); the length of the result is idx
RECURSIVE FillTriAccel(_, _, _)
FillTriAccel(shapes, flags, i) ==
    IF i >= Len(shapes) THEN << >>
    ELSE (IF flags[i + 1]
          THEN MeshRecords(shapes[i + 1], i, 0)
          ELSE << SentinelRecord(i) >>)
            \o FillTriAccel(shapes, flags, i + 1)

Build(plan) ==
    /\ alive
    /\ buildCalls < MaxBuildCalls
    /\ buildCalls' = buildCalls + 1
    /\ m_shapeMap' = PrefixSum(m_shapeMap, 1)
    /\ IF isBuilt
       THEN \* buildInternal: "The kd-tree has already been built!"
            /\ lastCall' = [op |-> "build", arg |-> "", outcome |-> "Error"]
            /\ UNCHANGED << m_shapes, m_triangleFlag, m_triAccel, m_nodes,
                            m_indices, m_aabb, refCount, buildIdx, query, alive,
                            stats, other, m_pool, render >>
       ELSE LET tree == buildInternal(m_shapes, m_shapeMap', m_triangleFlag, plan)
                accel == FillTriAccel(m_shapes, m_triangleFlag, 0)
            IN  /\ PlanFits(plan, tree.aabb)
                /\ m_nodes' = tree.nodes
                /\ m_indices' = tree.indices
                /\ m_aabb' = tree.aabb
                /\ m_triAccel' = accel
                /\ buildIdx' = Len(accel)
                /\ lastCall' = [op |-> "build", arg |-> "",
                                outcome |-> IF Len(accel) = getPrimitiveCount(m_shapeMap')
                                            THEN "ok" ELSE "KDAssertFailed"]
                /\ UNCHANGED << m_shapes, m_triangleFlag, refCount, query, alive,
                                stats, other, m_pool, render >>

-----------------------------------------------------------------------------
(* ShapeKDTree::~ShapeKDTree *)

\* the number of entries of m_shapes that point to shape
Registrations(shapes, shape) ==
    Cardinality({i \in DOMAIN shapes : shapes[i] = shape})

\* variant: a shape registered several times is released once
Destroy_OncePerShape ==
    /\ alive
    /\ query.pc = "idle"
    /\ alive' = FALSE
    /\ m_triAccel' = << >>
    /\ refCount' = [s \in Shapes |->
            IF Registrations(m_shapes, s) > 0 THEN refCount[s] - 1 ELSE refCount[s]]
    /\ lastCall' = [op |-> "~ShapeKDTree", arg |-> "", outcome |-> "ok"]
    /\ UNCHANGED << m_shapes, m_shapeMap, m_triangleFlag, m_nodes, m_indices,
                    m_aabb, buildCalls, buildIdx, query, stats, other, m_pool, render >>

\* the accelerator table is freed and decRef() runs once per entry of
\* m_shapes; the members stay as they were and are not used afterwards
Destroy ==
    /\ alive
    /\ query.pc = "idle"
    /\ alive' = FALSE
    /\ m_triAccel' = << >>
    /\ refCount' = [s \in Shapes |-> refCount[s] - Registrations(m_shapes, s)]
    /\ lastCall' = [op |-> "~ShapeKDTree", arg |-> "", outcome |-> "ok"]
    /\ UNCHANGED << m_shapes, m_shapeMap, m_triangleFlag, m_nodes, m_indices,
                    m_aabb, buildCalls, buildIdx, query, stats, other, m_pool, render >>

-----------------------------------------------------------------------------
(* Rays.  A ray is [o, d, mint, maxt]; every component of d is 1 or -1, so  *)
(* dRcp = d and the point at parameter t is o + t*d.                        *)

RayAt(ray, t) ==
    [a \in 1 .. 3 |-> ray.o[a] + t * ray.d[a]]

\* Float product of two fixed-point values
FMul(a, b) ==
    (a * b) \div One

\* AABB::rayIntersect(ray, nearT, farT): the slab test
AabbRayIntersect(aabb, ray) ==
    IF ~aabb.valid
    THEN [hit |-> TRUE, nearT |-> -Infinity, farT |-> Infinity]
    ELSE LET t1(a) == (Coord(aabb.min, a) - Coord(ray.o, a)) * Coord(ray.d, a)
             t2(a) == (Coord(aabb.max, a) - Coord(ray.o, a)) * Coord(ray.d, a)
             lo(a) == Min2(t1(a), t2(a))
             hi(a) == Max2(t1(a), t2(a))
             nearT == Max2(lo(0), Max2(lo(1), lo(2)))
             farT == Min2(hi(0), Min2(hi(1), hi(2)))
         IN  [hit |-> nearT <= farT, nearT |-> nearT, farT |-> farT]

\* TriAccel::rayIntersect and Shape::rayIntersect on a patch: the parameter at
\* which the ray meets the patch's plane, accepted when it lies in [mint, maxt]
\* and the point lies on the patch
PatchT(geom, ray) ==
    (Coord(geom.min, geom.k) - Coord(ray.o, geom.k)) * Coord(ray.d, geom.k)

PatchHit(geom, ray, mint, maxt) ==
    LET t == PatchT(geom, ray)
        p == RayAt(ray, t)
    IN  /\ t >= mint
        /\ t <= maxt
        /\ \A a \in Axes : /\ Coord(geom.min, a) <= Coord(p, a)
                           /\ Coord(p, a) <= Coord(geom.max, a)

PatchU(geom, ray) ==
    Coord(RayAt(ray, PatchT(geom, ray)), (geom.k + 1) % 3) - Coord(geom.min, (geom.k + 1) % 3)

PatchV(geom, ray) ==
    Coord(RayAt(ray, PatchT(geom, ray)), (geom.k + 2) % 3) - Coord(geom.min, (geom.k + 2) % 3)

NoHit ==
    [hit |-> FALSE, t |-> Infinity, shapeIndex |-> KNoTriangleFlag,
     primIndex |-> KNoTriangleFlag, u |-> 0, v |-> 0]

\* ShapeKDTree::intersect(ray, idx, mint, maxt, t, temp): the test of one
\* primitive, filling the intersection cache
intersect(ray, idx, mint, maxt) ==
    LET ta == m_triAccel[idx + 1]
    IN  IF ta.k # KNoTriangleFlag
        THEN IF PatchHit(ta.geom, ray, mint, maxt)
             THEN [hit |-> TRUE, t |-> PatchT(ta.geom, ray),
                   shapeIndex |-> ta.shapeIndex, primIndex |-> ta.primIndex,
                   u |-> PatchU(ta.geom, ray), v |-> PatchV(ta.geom, ray)]
             ELSE NoHit
        ELSE LET geom == ShapeGeom(m_shapes[ta.shapeIndex + 1])
             IN  IF PatchHit(geom, ray, mint, maxt)
                 THEN [hit |-> TRUE, t |-> PatchT(geom, ray),
                       shapeIndex |-> ta.shapeIndex, primIndex |-> KNoTriangleFlag,
                       u |-> PatchU(geom, ray), v |-> PatchV(geom, ray)]
                 ELSE NoHit

-----------------------------------------------------------------------------
(* rayIntersectHavran<shadowRay>: the traversal core of the scalar queries. *)
(* best is the closest hit found so far; primitives are tested against      *)
(* [mint, maxt] with maxt lowered to the closest hit.                       *)

RECURSIVE HavranLeaf(_, _, _, _, _, _)
HavranLeaf(ray, mint, maxt, entry, last, best) ==
    IF entry = last THEN best
    ELSE LET r == intersect(ray, m_indices[entry + 1], mint,
                            IF best.hit THEN best.t ELSE maxt)
         IN  HavranLeaf(ray, mint, maxt, entry + 1, last, IF r.hit THEN r ELSE best)

RECURSIVE HavranNode(_, _, _, _, _, _, _)
HavranNode(ray, mint, maxt, n, tEntry, tExit, best) ==
    LET node == m_nodes[n]
    IN  IF node.kind = "leaf"
        THEN HavranLeaf(ray, mint, maxt, node.start, node.end, best)
        ELSE LET dir == Coord(ray.d, node.axis)
                 tSplit == (node.split - Coord(ray.o, node.axis)) * dir
                 near == IF dir > 0 THEN 2 * n ELSE 2 * n + 1
                 far == IF dir > 0 THEN 2 * n + 1 ELSE 2 * n
                 nearOnly == IF dir > 0 THEN tExit <= tSplit ELSE tExit < tSplit
             IN  IF nearOnly
                 THEN HavranNode(ray, mint, maxt, near, tEntry, tExit, best)
                 ELSE IF tSplit <= tEntry
                 THEN HavranNode(ray, mint, maxt, far, tEntry, tExit, best)
                 ELSE LET b == HavranNode(ray, mint, maxt, near, tEntry, tSplit, best)
                      IN  IF b.hit /\ b.t < tSplit
                          THEN b
                          ELSE HavranNode(ray, mint, maxt, far, tSplit, tExit, b)

rayIntersectHavran(ray, mint, maxt) ==
    HavranNode(ray, mint, maxt, 1, mint, maxt, NoHit)

\* rayIntersectHavran<true>: stops at the first primitive hit
RECURSIVE ShadowLeaf(_, _, _, _, _)
ShadowLeaf(ray, mint, maxt, entry, last) ==
    IF entry = last THEN FALSE
    ELSE \/ intersect(ray, m_indices[entry + 1], mint, maxt).hit
         \/ ShadowLeaf(ray, mint, maxt, entry + 1, last)

RECURSIVE ShadowNode(_, _, _, _, _, _)
ShadowNode(ray, mint, maxt, n, tEntry, tExit) ==
    LET node == m_nodes[n]
    IN  IF node.kind = "leaf"
        THEN ShadowLeaf(ray, mint, maxt, node.start, node.end)
        ELSE LET dir == Coord(ray.d, node.axis)
                 tSplit == (node.split - Coord(ray.o, node.axis)) * dir
                 near == IF dir > 0 THEN 2 * n ELSE 2 * n + 1
                 far == IF dir > 0 THEN 2 * n + 1 ELSE 2 * n
                 nearOnly == IF dir > 0 THEN tExit <= tSplit ELSE tExit < tSplit
             IN  IF nearOnly
                 THEN ShadowNode(ray, mint, maxt, near, tEntry, tExit)
                 ELSE IF tSplit <= tEntry
                 THEN ShadowNode(ray, mint, maxt, far, tEntry, tExit)
                 ELSE \/ ShadowNode(ray, mint, maxt, near, tEntry, tSplit)
                      \/ ShadowNode(ray, mint, maxt, far, tSplit, tExit)

rayIntersectHavranShadow(ray, mint, maxt) ==
    ShadowNode(ray, mint, maxt, 1, mint, maxt)

-----------------------------------------------------------------------------
(* The scalar entry points *)

MaxAbs3(p) ==
    Max2(Max2(Abs(p[1]), Abs(p[2])), Abs(p[3]))

\* lines 367-370: rayMinT of rayIntersect(ray, its)
AdaptiveMinT(ray) ==
    IF ray.mint = Epsilon
    THEN FMul(ray.mint, Max2(MaxAbs3(ray.o), Epsilon))
    ELSE ray.mint

\* lines 454-457: rayMinT of rayIntersect(ray)
AdaptiveMinTShadow(ray) ==
    IF ray.mint = Epsilon
    THEN FMul(ray.mint, MaxAbs3(ray.o))
    ELSE ray.mint

\* variant: the scaling is applied to every ray.mint
AdaptiveMinTLite_Always(ray) ==
    FMul(ray.mint, MaxAbs3(ray.o))

\* lines 395-398: rayMinT of rayIntersect(ray, t, shape, n, uv)
AdaptiveMinTLite(ray) ==
    IF ray.mint = Epsilon
    THEN FMul(ray.mint, MaxAbs3(ray.o))
    ELSE ray.mint

\* lines 365-375, 393-403 and 452-462: the box test and the interval handed
\* to the traversal core; rayMinT is the entry point's adaptive lower bound
SearchInterval(ray, rayMinT) ==
    LET box == AabbRayIntersect(m_aabb, ray)
    IN  [box |-> box.hit,
         mint |-> IF rayMinT > box.nearT THEN rayMinT ELSE box.nearT,
         maxt |-> IF ray.maxt < box.farT THEN ray.maxt ELSE box.farT]

\* variant: the search interval is not clipped to ray.maxt
rayIntersect_NoMaxtClip(ray) ==
    LET box == AabbRayIntersect(m_aabb, ray)
        rayMinT == AdaptiveMinT(ray)
        mint == IF rayMinT > box.nearT THEN rayMinT ELSE box.nearT
        maxt == box.farT
    IN  IF box.hit /\ maxt > mint
        THEN rayIntersectHavran(ray, mint, maxt)
        ELSE NoHit

\* bool rayIntersect(const Ray &ray, Intersection &its): the hit flag, its.t
\* and the intersection cache that fillIntersectionRecord reads
rayIntersect(ray) ==
    LET iv == SearchInterval(ray, AdaptiveMinT(ray))
    IN  IF iv.box /\ iv.maxt > iv.mint
        THEN rayIntersectHavran(ray, iv.mint, iv.maxt)
        ELSE NoHit

\* bool rayIntersect(const Ray &ray, Float &t, ConstShapePtr &shape, Normal &n,
\* Point2 &uv): t, the shape and the normal (the axis the patch lies on); the
\* meshes carry no texture coordinates, so uv is Point2(0) on a triangle
rayIntersectLite(ray) ==
    LET iv == SearchInterval(ray, AdaptiveMinTLite(ray))
        r == IF iv.box /\ iv.maxt > iv.mint
             THEN rayIntersectHavran(ray, iv.mint, iv.maxt)
             ELSE NoHit
    IN  IF r.hit
        THEN [hit |-> TRUE, t |-> r.t, shape |-> m_shapes[r.shapeIndex + 1],
              n |-> IF m_triangleFlag[r.shapeIndex + 1]
                    THEN getTriangles(m_shapes[r.shapeIndex + 1])[r.primIndex + 1].k
                    ELSE ShapeGeom(m_shapes[r.shapeIndex + 1]).k,
              uv |-> IF m_triangleFlag[r.shapeIndex + 1]
                     THEN <<0, 0>> ELSE <<r.u, r.v>>]
        ELSE [hit |-> FALSE, t |-> Infinity]

\* bool rayIntersect(const Ray &ray): the occlusion query
rayIntersectShadow(ray) ==
    LET iv == SearchInterval(ray, AdaptiveMinTShadow(ray))
    IN  /\ iv.box
        /\ iv.maxt > iv.mint
        /\ rayIntersectHavranShadow(ray, iv.mint, iv.maxt)

-----------------------------------------------------------------------------
(* Queries on a built index.  The scenes are registered and built as        *)
(* addShape and build() do it; the rays are the callers' inputs.            *)

QueryScenes ==
    { << "meshA" >>,
      << "rectB", "meshA" >>,
      << "meshC", "rectD" >>,
      << "meshA", "rectD", "meshC" >> }

RayGeoms ==
    { [o |-> <<0, 0, 0>>, d |-> <<1, 1, 1>>],
      [o |-> <<2048, 0, 0>>, d |-> <<1, 1, 1>>],
      [o |-> <<256, 256, 256>>, d |-> <<-1, -1, -1>>],
      [o |-> <<2304, 256, 256>>, d |-> <<-1, -1, -1>>],
      [o |-> <<0, 64, 0>>, d |-> <<1, -1, 1>>] }

RayMinTs ==
    {0, Epsilon, 100}

RayMaxTs ==
    {120, 128, Infinity}

Rays ==
    { [o |-> g.o, d |-> g.d, mint |-> lo, maxt |-> hi] :
        g \in RayGeoms, lo \in RayMinTs, hi \in RayMaxTs }

InitBuilt ==
    \E scene \in QueryScenes, plan \in Plans :
        LET flags == [i \in DOMAIN scene |-> derivesFromTriMesh(scene[i])]
            counts == [i \in DOMAIN scene |->
                        IF derivesFromTriMesh(scene[i])
                        THEN getTriangleCount(scene[i]) ELSE 1]
            shapeMap == PrefixSum(<< 0 >> \o counts, 1)
            tree == buildInternal(scene, shapeMap, flags, plan)
            accel == FillTriAccel(scene, flags, 0)
        IN  /\ PlanFits(plan, tree.aabb)
            /\ m_shapes = scene
            /\ m_shapeMap = shapeMap
            /\ m_triangleFlag = flags
            /\ m_triAccel = accel
            /\ m_nodes = tree.nodes
            /\ m_indices = tree.indices
            /\ m_aabb = tree.aabb
            /\ refCount = [sh \in Shapes |->
                            Cardinality({i \in DOMAIN scene : scene[i] = sh})]
            /\ buildCalls = 1
            /\ buildIdx = Len(accel)
            /\ lastCall = [op |-> "build", arg |-> "", outcome |-> "ok"]
            /\ query = NoQuery
            /\ alive = TRUE
            /\ stats = NoStats
            /\ other = NoQuery
            /\ m_pool = EmptyPool
            /\ render = NoWork

\* the number of queries the statistics counters have counted
Traced ==
    stats.raysTraced + stats.shadowRaysTraced + stats.coherentPackets
        + stats.incoherentPackets

QueryCall ==
    [op |-> "query", arg |-> "", outcome |-> "ok"]

\* a caller runs rayIntersect(ray, its)
QRayIntersect(ray) ==
    /\ isBuilt
    /\ Traced < MaxTraced
    /\ query.pc = "idle"
    /\ query' = [pc |-> "done", op |-> "rayIntersect", ray |-> ray,
                 interval |-> SearchInterval(ray, AdaptiveMinT(ray)),
                 out |-> rayIntersect(ray)]
    /\ lastCall' = QueryCall
    /\ stats' = [stats EXCEPT !.raysTraced = @ + 1]
    /\ UNCHANGED << regVars, other, m_pool, render >>

\* a caller runs rayIntersect(ray, t, shape, n, uv)
QRayIntersectLite(ray) ==
    /\ isBuilt
    /\ Traced < MaxTraced
    /\ query.pc = "idle"
    /\ query' = [pc |-> "done", op |-> "rayIntersectLite", ray |-> ray,
                 interval |-> SearchInterval(ray, AdaptiveMinTLite(ray)),
                 out |-> rayIntersectLite(ray)]
    /\ lastCall' = QueryCall
    /\ stats' = [stats EXCEPT !.shadowRaysTraced = @ + 1]
    /\ UNCHANGED << regVars, other, m_pool, render >>

\* a caller runs rayIntersect(ray)
QRayIntersectShadow(ray) ==
    /\ isBuilt
    /\ Traced < MaxTraced
    /\ query.pc = "idle"
    /\ query' = [pc |-> "done", op |-> "rayIntersectShadow", ray |-> ray,
                 interval |-> SearchInterval(ray, AdaptiveMinTShadow(ray)),
                 out |-> [hit |-> rayIntersectShadow(ray)]]
    /\ lastCall' = QueryCall
    /\ stats' = [stats EXCEPT !.shadowRaysTraced = @ + 1]
    /\ UNCHANGED << regVars, other, m_pool, render >>

\* the caller has read the output
QReturn ==
    /\ query.pc = "done"
    /\ query' = NoQuery
    /\ UNCHANGED << regVars, lastCall, stats, other, m_pool, render >>

-----------------------------------------------------------------------------
(* Ray packets: RayPacket4 and RayInterval4 hold four lanes; lane i of the  *)
(* C++ vectors is element i+1 here.                                         *)

PacketSize ==
    4

Lanes ==
    1 .. PacketSize

LaneRay(pkt, i) ==
    [o |-> pkt.o[i], d |-> pkt.d[i], mint |-> pkt.mint[i], maxt |-> pkt.maxt[i]]

\* Intersection4 as its constructor leaves it
EmptyLane ==
    [t |-> Infinity, shapeIndex |-> KNoTriangleFlag, primIndex |-> KNoTriangleFlag,
     u |-> 0, v |-> 0]

EmptyIntersection4 ==
    [i \in Lanes |-> EmptyLane]

PacketOrigins ==
    { << <<0, 0, 0>>, <<16, 16, 16>>, <<-64, -64, -64>>, <<2048, 0, 0>> >>,
      << <<2048, 0, 0>>, <<0, 0, 0>>, <<0, 512, 0>>, <<0, 0, 0>> >> }

PacketOriginsBack ==
    { << <<256, 256, 256>>, <<2304, 256, 256>>, <<256, 256, 256>>, <<192, 192, 192>> >> }

LaneIntervals ==
    { [mint |-> Epsilon, maxt |-> Infinity],
      [mint |-> 0, maxt |-> 120],
      [mint |-> 100, maxt |-> Infinity] }

\* packets whose four directions agree in sign on every axis
CoherentPackets ==
    { [o |-> os, d |-> [i \in Lanes |-> <<1, 1, 1>>],
       mint |-> [i \in Lanes |-> iv[i].mint], maxt |-> [i \in Lanes |-> iv[i].maxt]] :
        os \in PacketOrigins, iv \in [Lanes -> LaneIntervals] }
    \cup
    { [o |-> os, d |-> [i \in Lanes |-> <<-1, -1, -1>>],
       mint |-> [i \in Lanes |-> iv[i].mint], maxt |-> [i \in Lanes |-> iv[i].maxt]] :
        os \in PacketOriginsBack, iv \in [Lanes -> LaneIntervals] }

\* SSEConstants::om_eps and op_eps as factors
OmEps(x) ==
    FMul(x, One - Epsilon)

OpEps(x) ==
    FMul(x, One + Epsilon)

\* KDNode::getSibling
getSibling(n) ==
    IF n % 2 = 0 THEN n + 1 ELSE n - 1

AllLanes(mask) ==
    \A i \in Lanes : mask[i]

\* lines 487-503: the state of the call when it reaches the loop or returns
PacketBegin(pkt) ==
    LET box == [i \in Lanes |-> AabbRayIntersect(m_aabb, LaneRay(pkt, i))]
        interval == [mint |-> [i \in Lanes |-> Max2(box[i].nearT, pkt.mint[i])],
                     maxt |-> [i \in Lanes |-> Min2(box[i].farT, pkt.maxt[i])]]
        itsFound == [i \in Lanes |-> interval.mint[i] > interval.maxt[i]]
    IN  [pc |-> IF (\E i \in Lanes : box[i].hit) /\ ~AllLanes(itsFound)
                         THEN "loop" ELSE "done",
                  op |-> "rayIntersectPacket", packet |-> pkt,
                  its |-> EmptyIntersection4,
                  currNode |-> 1, stackIndex |-> 0, stack |-> << >>,
                  interval |-> interval, itsFound |-> itsFound, masked |-> itsFound]

\* lines 487-503 of rayIntersectPacket
QPacketBegin(pkt) ==
    /\ isBuilt
    /\ Traced < MaxTraced
    /\ query.pc = "idle"
    /\ query' = PacketBegin(pkt)
    /\ lastCall' = QueryCall
    /\ stats' = [stats EXCEPT !.coherentPackets = @ + 1]
    /\ UNCHANGED << regVars, other, m_pool, render >>

\* variant: the entry pushed names the child the traversal enters next
PacketInnerStep_PushesNear(q) ==
    LET pkt == q.packet
        node == m_nodes[q.currNode]
        interval == q.interval
        t == [i \in Lanes |->
                 (node.split - Coord(pkt.o[i], node.axis)) * Coord(pkt.d[i], node.axis)]
        startsAfterSplit == [i \in Lanes |-> q.masked[i] \/ t[i] < interval.mint[i]]
        endsBeforeSplit == [i \in Lanes |-> q.masked[i] \/ t[i] > interval.maxt[i]]
        sign == IF Coord(pkt.d[1], node.axis) < 0 THEN 1 ELSE 0
        child == 2 * q.currNode + sign
        newMaxt == [i \in Lanes |-> Min2(t[i], interval.maxt[i])]
    IN  IF AllLanes(startsAfterSplit)
        THEN [q EXCEPT !.currNode = getSibling(child)]
        ELSE IF AllLanes(endsBeforeSplit)
        THEN [q EXCEPT !.currNode = child]
        ELSE [q EXCEPT
                 !.currNode = child,
                 !.stack = Append(@,
                     [node |-> child,
                      interval |-> [mint |-> [i \in Lanes |-> Max2(t[i], interval.mint[i])],
                                    maxt |-> interval.maxt]]),
                 !.interval = [mint |-> interval.mint, maxt |-> newMaxt],
                 !.masked = [i \in Lanes |->
                                 q.masked[i] \/ interval.mint[i] > newMaxt[i]],
                 !.stackIndex = @ + 1]

\* lines 506-540: one pass of the loop over inner nodes, from the state q of
\* the call to its next state
PacketInnerStep(q) ==
    LET pkt == q.packet
        node == m_nodes[q.currNode]
        interval == q.interval
        t == [i \in Lanes |->
                 (node.split - Coord(pkt.o[i], node.axis)) * Coord(pkt.d[i], node.axis)]
        startsAfterSplit == [i \in Lanes |-> q.masked[i] \/ t[i] < interval.mint[i]]
        endsBeforeSplit == [i \in Lanes |-> q.masked[i] \/ t[i] > interval.maxt[i]]
        sign == IF Coord(pkt.d[1], node.axis) < 0 THEN 1 ELSE 0
        child == 2 * q.currNode + sign
        newMaxt == [i \in Lanes |-> Min2(t[i], interval.maxt[i])]
    IN  IF AllLanes(startsAfterSplit)
        THEN [q EXCEPT !.currNode = getSibling(child)]
        ELSE IF AllLanes(endsBeforeSplit)
        THEN [q EXCEPT !.currNode = child]
        ELSE [q EXCEPT
                 !.currNode = child,
                 !.stack = Append(@,
                     [node |-> getSibling(child),
                      interval |-> [mint |-> [i \in Lanes |-> Max2(t[i], interval.mint[i])],
                                    maxt |-> interval.maxt]]),
                 !.interval = [mint |-> interval.mint, maxt |-> newMaxt],
                 !.masked = [i \in Lanes |->
                                 q.masked[i] \/ interval.mint[i] > newMaxt[i]],
                 !.stackIndex = @ + 1]

\* lines 506-540: one pass of the loop over inner nodes
QPacketInner ==
    /\ query.pc = "loop"
    /\ m_nodes[query.currNode].kind = "inner"
    /\ query' = PacketInnerStep(query)
    /\ UNCHANGED << regVars, lastCall, stats, other, m_pool, render >>

\* lines 553-583: the loop over the entries of a leaf; acc holds its,
\* itsFound and searchEnd
RECURSIVE PacketLeafEntries(_, _, _, _, _, _)
PacketLeafEntries(pkt, masked, searchStart, entry, primEnd, acc) ==
    IF entry = primEnd THEN acc
    ELSE LET kdTri == m_triAccel[m_indices[entry + 1] + 1]
             isTri == kdTri.k # KNoTriangleFlag
             geom == IF isTri THEN kdTri.geom ELSE ShapeGeom(m_shapes[kdTri.shapeIndex + 1])
             hits == [i \in Lanes |->
                        /\ ~masked[i]
                        /\ PatchHit(geom, LaneRay(pkt, i), searchStart[i], acc.searchEnd[i])]
             its == [i \in Lanes |->
                        IF ~hits[i] THEN acc.its[i]
                        ELSE IF isTri
                        THEN [t |-> PatchT(geom, LaneRay(pkt, i)),
                              shapeIndex |-> kdTri.shapeIndex,
                              primIndex |-> kdTri.primIndex,
                              u |-> PatchU(geom, LaneRay(pkt, i)),
                              v |-> PatchV(geom, LaneRay(pkt, i))]
                        ELSE [acc.its[i] EXCEPT
                                !.t = PatchT(geom, LaneRay(pkt, i)),
                                !.shapeIndex = kdTri.shapeIndex,
                                !.primIndex = KNoTriangleFlag]]
         IN  PacketLeafEntries(pkt, masked, searchStart, entry + 1, primEnd,
                [its |-> its,
                 itsFound |-> [i \in Lanes |-> acc.itsFound[i] \/ hits[i]],
                 searchEnd |-> [i \in Lanes |-> Min2(acc.searchEnd[i], its[i].t)]])

\* variant: the mask after a pop comes from the popped interval alone
PacketLeafStep_PopForgetsFound(q) ==
    LET pkt == q.packet
        node == m_nodes[q.currNode]
        searchStart == [i \in Lanes |->
                         Max2(pkt.mint[i], OmEps(q.interval.mint[i]))]
        searchEnd == [i \in Lanes |->
                         Min2(pkt.maxt[i], OpEps(q.interval.maxt[i]))]
        acc == IF node.start # node.end
               THEN PacketLeafEntries(pkt, q.masked, searchStart,
                         node.start, node.end,
                         [its |-> q.its, itsFound |-> q.itsFound,
                          searchEnd |-> searchEnd])
               ELSE [its |-> q.its, itsFound |-> q.itsFound,
                     searchEnd |-> searchEnd]
        top == q.stackIndex - 1
    IN  IF AllLanes(acc.itsFound) \/ top < 0
        THEN [q EXCEPT
                 !.pc = "done", !.its = acc.its, !.itsFound = acc.itsFound,
                 !.stackIndex = IF AllLanes(acc.itsFound) THEN @ ELSE top]
        ELSE [q EXCEPT
                 !.its = acc.its, !.itsFound = acc.itsFound,
                 !.stackIndex = top,
                 !.currNode = q.stack[top + 1].node,
                 !.interval = q.stack[top + 1].interval,
                 !.stack = SubSeq(@, 1, top),
                 !.masked = [i \in Lanes |->
                     q.stack[top + 1].interval.mint[i]
                         > q.stack[top + 1].interval.maxt[i]]]

\* lines 542-596: a leaf is tested, then the traversal ends or pops the
\* stack; from the state q of the call to its next state
PacketLeafStep(q) ==
    LET pkt == q.packet
        node == m_nodes[q.currNode]
        searchStart == [i \in Lanes |->
                         Max2(pkt.mint[i], OmEps(q.interval.mint[i]))]
        searchEnd == [i \in Lanes |->
                         Min2(pkt.maxt[i], OpEps(q.interval.maxt[i]))]
        acc == IF node.start # node.end
               THEN PacketLeafEntries(pkt, q.masked, searchStart,
                         node.start, node.end,
                         [its |-> q.its, itsFound |-> q.itsFound,
                          searchEnd |-> searchEnd])
               ELSE [its |-> q.its, itsFound |-> q.itsFound,
                     searchEnd |-> searchEnd]
        top == q.stackIndex - 1
    IN  IF AllLanes(acc.itsFound) \/ top < 0
        THEN [q EXCEPT
                 !.pc = "done", !.its = acc.its, !.itsFound = acc.itsFound,
                 !.stackIndex = IF AllLanes(acc.itsFound) THEN @ ELSE top]
        ELSE [q EXCEPT
                 !.its = acc.its, !.itsFound = acc.itsFound,
                 !.stackIndex = top,
                 !.currNode = q.stack[top + 1].node,
                 !.interval = q.stack[top + 1].interval,
                 !.stack = SubSeq(@, 1, top),
                 !.masked = [i \in Lanes |->
                     \/ acc.itsFound[i]
                     \/ q.stack[top + 1].interval.mint[i]
                             > q.stack[top + 1].interval.maxt[i]]]

\* lines 505-596: the loop run from state q until the call returns
RECURSIVE PacketRun(_)
PacketRun(q) ==
    IF q.pc # "loop" THEN q
    ELSE IF m_nodes[q.currNode].kind = "inner" THEN PacketRun(PacketInnerStep(q))
    ELSE PacketRun(PacketLeafStep(q))

\* void rayIntersectPacket(packet, rayInterval, its, temp): the Intersection4
\* the call leaves behind
rayIntersectPacket(pkt) ==
    PacketRun(PacketBegin(pkt)).its

\* variant: the traversal ends as soon as one lane has found a hit
QPacketLeaf_AnyLane ==
    /\ query.pc = "loop"
    /\ m_nodes[query.currNode].kind = "leaf"
    /\ LET pkt == query.packet
           node == m_nodes[query.currNode]
           searchStart == [i \in Lanes |->
                            Max2(pkt.mint[i], OmEps(query.interval.mint[i]))]
           searchEnd == [i \in Lanes |->
                            Min2(pkt.maxt[i], OpEps(query.interval.maxt[i]))]
           acc == IF node.start # node.end
                  THEN PacketLeafEntries(pkt, query.masked, searchStart,
                            node.start, node.end,
                            [its |-> query.its, itsFound |-> query.itsFound,
                             searchEnd |-> searchEnd])
                  ELSE [its |-> query.its, itsFound |-> query.itsFound,
                        searchEnd |-> searchEnd]
           top == query.stackIndex - 1
       IN  IF (\E i \in Lanes : acc.itsFound[i]) \/ top < 0
           THEN query' = [query EXCEPT
                    !.pc = "done", !.its = acc.its, !.itsFound = acc.itsFound,
                    !.stackIndex = IF AllLanes(acc.itsFound) THEN @ ELSE top]
           ELSE query' = [query EXCEPT
                    !.its = acc.its, !.itsFound = acc.itsFound,
                    !.stackIndex = top,
                    !.currNode = query.stack[top + 1].node,
                    !.interval = query.stack[top + 1].interval,
                    !.stack = SubSeq(@, 1, top),
                    !.masked = [i \in Lanes |->
                        \/ acc.itsFound[i]
                        \/ query.stack[top + 1].interval.mint[i]
                                > query.stack[top + 1].interval.maxt[i]]]
    /\ UNCHANGED << regVars, lastCall, stats, other, m_pool, render >>

\* lines 542-596: a leaf is tested, then the traversal ends or pops the stack
QPacketLeaf ==
    /\ query.pc = "loop"
    /\ m_nodes[query.currNode].kind = "leaf"
    /\ query' = PacketLeafStep(query)
    /\ UNCHANGED << regVars, lastCall, stats, other, m_pool, render >>

\* rayIntersectPacketIncoherent
QPacketIncoherent(pkt) ==
    /\ isBuilt
    /\ Traced < MaxTraced
    /\ query.pc = "idle"
    /\ query' = [pc |-> "done", op |-> "rayIntersectPacketIncoherent", packet |-> pkt,
                 its |-> [i \in Lanes |->
                    LET ray == LaneRay(pkt, i)
                        r == IF ray.mint < ray.maxt
                             THEN rayIntersectHavran(ray, ray.mint, ray.maxt)
                             ELSE NoHit
                    IN  IF r.hit
                        THEN [t |-> r.t, shapeIndex |-> r.shapeIndex,
                              primIndex |-> r.primIndex, u |-> r.u, v |-> r.v]
                        ELSE EmptyLane]]
    /\ lastCall' = QueryCall
    /\ stats' = [stats EXCEPT !.incoherentPackets = @ + 1]
    /\ UNCHANGED << regVars, other, m_pool, render >>

-----------------------------------------------------------------------------
(* The region query: ellipsoidIntersect and recursiveEllipsoidIntersect.    *)
(* An ellipsoid is [aabb, body]: aabb is Ellipsoid::m_aabb, body the region  *)
(* the exact test of a primitive is made against (a box inside aabb).        *)
(* P[i+1] is corner i of a node's box, L[i+1] its PLocation.                 *)

Box(lo, hi) ==
    [min |-> lo, max |-> hi]

Ellipsoids ==
    { [aabb |-> Box(<<90, 90, 120>>, <<170, 170, 136>>),
       body |-> Box(<<94, 94, 124>>, <<166, 166, 132>>)],
      [aabb |-> Box(<<10, 26, 10>>, <<54, 38, 54>>),
       body |-> Box(<<14, 28, 14>>, <<50, 36, 50>>)],
      [aabb |-> Box(<<2170, 60, 60>>, <<2250, 230, 230>>),
       body |-> Box(<<2174, 62, 62>>, <<2246, 228, 228>>)],
      [aabb |-> Box(<<2230, 150, 150>>, <<2250, 230, 230>>),
       body |-> Box(<<2234, 156, 156>>, <<2246, 226, 226>>)],
      [aabb |-> Box(<<5000, 5000, 5000>>, <<5100, 5100, 5100>>),
       body |-> Box(<<5010, 5010, 5010>>, <<5090, 5090, 5090>>)] }

\* lines 117-124: corner i has the box's max on axis a iff bit a of i is set
BoxCorners(aabb) ==
    [i \in 1 .. 8 |->
        << IF (i - 1) % 2 = 1 THEN aabb.max[1] ELSE aabb.min[1],
           IF ((i - 1) \div 2) % 2 = 1 THEN aabb.max[2] ELSE aabb.min[2],
           IF ((i - 1) \div 4) % 2 = 1 THEN aabb.max[3] ELSE aabb.min[3] >>]

\* lines 126-133
AllTBD ==
    [i \in 1 .. 8 |-> "ETBD"]

\* lines 251-277: the four corners that are rewritten
FillIndices(axis, direction) ==
    CASE axis = 0 /\ direction = 0 -> {1, 3, 5, 7}
      [] axis = 0 /\ direction = 1 -> {0, 2, 4, 5}
      [] axis = 1 /\ direction = 0 -> {2, 3, 6, 7}
      [] axis = 1 /\ direction = 1 -> {0, 1, 4, 5}
      [] axis = 2 /\ direction = 0 -> {4, 5, 6, 7}
      [] axis = 2 /\ direction = 1 -> {0, 1, 2, 3}

\* fillPositionsAndLocations(P, L, PNew, LNew, splitValue, axis, direction):
\* the pair PNew, LNew
fillPositionsAndLocations(P, L, splitValue, axis, direction) ==
    [P |-> [i \in 1 .. 8 |->
                IF (i - 1) \in FillIndices(axis, direction)
                THEN [P[i] EXCEPT ![axis + 1] = splitValue]
                ELSE P[i]],
     L |-> [i \in 1 .. 8 |->
                IF (i - 1) \in FillIndices(axis, direction) THEN "ETBD" ELSE L[i]]]

\* lines 290-306: the test reads m_aabb, the box of the whole tree
isBoxCuttingEllipsoid(e, P, L) ==
    /\ ~(e.aabb.max[1] < m_aabb.min[1])
    /\ ~(e.aabb.min[1] > m_aabb.max[1])
    /\ ~(e.aabb.max[2] < m_aabb.min[2])
    /\ ~(e.aabb.min[2] > m_aabb.max[2])
    /\ ~(e.aabb.max[3] < m_aabb.min[3])
    /\ ~(e.aabb.min[3] > m_aabb.max[3])

\* the weight the exact test of a primitive writes to value on success
ExactWeight ==
    60 * One

\* TriAccel::ellipsoidIntersectTriangle(e, value, u, v, sampler): the exact
\* test of the triangle stored in record ta
ellipsoidIntersectTriangle(e, ta, value) ==
    IF Overlaps(ta.geom, e.body)
    THEN [hit |-> TRUE, value |-> ExactWeight, u |-> 0, v |-> 0]
    ELSE [hit |-> FALSE, value |-> value, u |-> 0, v |-> 0]

NoCache ==
    [shapeIndex |-> KNoTriangleFlag, primIndex |-> KNoTriangleFlag, u |-> 0, v |-> 0]

\* value *= 0.5f, once for every recursiveEllipsoidIntersect frame that
\* returns true to its caller at line 216 or 228
RECURSIVE Halved(_, _)
Halved(value, depth) ==
    IF depth = 0 THEN value ELSE Halved(FMul(value, One \div 2), depth - 1)

\* lines 114-134: the call of recursiveEllipsoidIntersect on the root
QEllipsoidBegin(e) ==
    /\ isBuilt
    /\ query.pc = "idle"
    /\ query' = [pc |-> "descend", op |-> "ellipsoidIntersect", e |-> e,
                 node |-> 1, depth |-> 0, P |-> BoxCorners(m_aabb), L |-> AllTBD,
                 value |-> One, hit |-> FALSE, cache |-> NoCache,
                 path |-> << >>, tested |-> << >>]
    /\ lastCall' = QueryCall
    /\ UNCHANGED << regVars, stats, other, m_pool, render >>

\* variant: the scratch record is written whether or not the test succeeds
LeafTest_CacheOnMiss(q, x, primIdx) ==
    LET node == m_nodes[q.node]
        ta == m_triAccel[primIdx + 1]
        r == ellipsoidIntersectTriangle(q.e, ta, q.value)
        n == node.end - node.start
    IN  [q EXCEPT !.pc = "done", !.hit = r.hit,
            !.value = IF r.hit THEN Halved(r.value, q.depth)
                      ELSE IF n = 0 THEN Infinity ELSE r.value \div n,
            !.cache = [shapeIndex |-> ta.shapeIndex, primIndex |-> ta.primIndex,
                       u |-> r.u, v |-> r.v],
            !.path = Append(@, q.node),
            !.tested = Append(@, [x |-> x, primIdx |-> primIdx])]

\* lines 189-202, and the returns through lines 215-217 / 227-229 up to
\* ellipsoidIntersect: position x of the index buffer holds primIdx
LeafTest(q, x, primIdx) ==
    LET node == m_nodes[q.node]
        ta == m_triAccel[primIdx + 1]
        r == ellipsoidIntersectTriangle(q.e, ta, q.value)
        n == node.end - node.start
    IN  IF r.hit
        THEN [q EXCEPT !.pc = "done", !.hit = TRUE,
                !.value = Halved(r.value, q.depth),
                !.cache = [shapeIndex |-> ta.shapeIndex, primIndex |-> ta.primIndex,
                           u |-> r.u, v |-> r.v],
                !.path = Append(@, q.node),
                !.tested = Append(@, [x |-> x, primIdx |-> primIdx])]
        ELSE [q EXCEPT !.pc = "done", !.hit = FALSE,
                !.value = IF n = 0 THEN Infinity ELSE r.value \div n,
                !.path = Append(@, q.node),
                !.tested = Append(@, [x |-> x, primIdx |-> primIdx])]

\* lines 141-240: one frame of recursiveEllipsoidIntersect.  The sampler's
\* outcomes are the coin (nextFloat() < 0.5f) and the pick (nextSize(u-l)).
\* At an empty leaf nextSize(0) and the read of m_indices[x] are undefined:
\* the call may never return, may end the process, or may test any record.
QEllipsoidVisit ==
    /\ query.pc = "descend"
    /\ LET node == m_nodes[query.node]
       IN  IF node.kind = "absent" \/ ~isBoxCuttingEllipsoid(query.e, query.P, query.L)
           THEN query' = [query EXCEPT !.pc = "done", !.hit = FALSE,
                                       !.path = Append(@, query.node)]
           ELSE IF node.kind = "leaf"
           THEN IF node.start < node.end
                THEN \E pick \in 0 .. (node.end - node.start - 1) :
                        query' = LeafTest(query, node.start + pick,
                                          m_indices[node.start + pick + 1])
                ELSE \/ query' = [query EXCEPT !.pc = "hung",
                                               !.path = Append(@, query.node)]
                     \/ query' = [query EXCEPT !.pc = "crashed",
                                               !.path = Append(@, query.node)]
                     \/ \E primIdx \in 0 .. (Len(m_triAccel) - 1) :
                            query' = LeafTest(query, node.start, primIdx)
           ELSE \E coin \in {0, 1} :
                    LET new == fillPositionsAndLocations(query.P, query.L,
                                    node.split, node.axis, coin)
                    IN  query' = [query EXCEPT
                            !.node = 2 * query.node + coin,
                            !.depth = @ + 1,
                            !.P = new.P, !.L = new.L,
                            !.path = Append(@, query.node)]
    /\ UNCHANGED << regVars, lastCall, stats, other, m_pool, render >>

NextEllipsoid ==
    \/ \E e \in Ellipsoids : QEllipsoidBegin(e)
    \/ QEllipsoidVisit
    \/ QReturn

SpecEllipsoid ==
    InitBuilt /\ [][NextEllipsoid]_vars

\* packets whose directions differ in sign between lanes; none of their
\* intervals starts at Epsilon
IncoherentLaneIntervals ==
    { [mint |-> 0, maxt |-> Infinity],
      [mint |-> 0, maxt |-> 120],
      [mint |-> 100, maxt |-> Infinity] }

IncoherentGeoms ==
    { [o |-> << <<0, 0, 0>>, <<256, 256, 256>>, <<0, 64, 0>>, <<2304, 256, 256>> >>,
       d |-> << <<1, 1, 1>>, <<-1, -1, -1>>, <<1, -1, 1>>, <<-1, -1, -1>> >>],
      [o |-> << <<2304, 256, 256>>, <<2048, 0, 0>>, <<0, 0, 0>>, <<256, 256, 256>> >>,
       d |-> << <<-1, -1, -1>>, <<1, 1, 1>>, <<1, 1, 1>>, <<-1, -1, -1>> >>] }

IncoherentPackets ==
    { [o |-> g.o, d |-> g.d,
       mint |-> [i \in Lanes |-> iv[i].mint], maxt |-> [i \in Lanes |-> iv[i].maxt]] :
        g \in IncoherentGeoms, iv \in [Lanes -> IncoherentLaneIntervals] }

NextPacketMixed ==
    \/ \E pkt \in IncoherentPackets : QPacketBegin(pkt)
    \/ QPacketInner
    \/ QPacketLeaf
    \/ QReturn

SpecPacketMixed ==
    InitBuilt /\ [][NextPacketMixed]_vars

NextPacket ==
    \/ \E pkt \in CoherentPackets : QPacketBegin(pkt)
    \/ QPacketInner
    \/ QPacketLeaf
    \/ \E pkt \in CoherentPackets : QPacketIncoherent(pkt)
    \/ QReturn

SpecPacket ==
    InitBuilt /\ [][NextPacket]_vars

\* the coherent packets whose first two lanes share one interval and whose
\* last two lanes search [0, 120]
TerminationPackets ==
    { pkt \in CoherentPackets :
        /\ pkt.mint[1] = pkt.mint[2] /\ pkt.maxt[1] = pkt.maxt[2]
        /\ pkt.mint[3] = 0 /\ pkt.maxt[3] = 120
        /\ pkt.mint[4] = 0 /\ pkt.maxt[4] = 120 }

NextPacketFair ==
    \/ \E pkt \in TerminationPackets : QPacketBegin(pkt)
    \/ QPacketInner
    \/ QPacketLeaf
    \/ QReturn

\* the thread that called rayIntersectPacket keeps running until the call
\* returns
SpecPacketFair ==
    /\ InitBuilt
    /\ [][NextPacketFair]_vars
    /\ WF_vars(QPacketInner)
    /\ WF_vars(QPacketLeaf)

-----------------------------------------------------------------------------
(* Two callers at once: the caller of query runs its call step by step,     *)
(* a second thread runs rayIntersect(ray, its) between any two steps.       *)

ConcurrentRays ==
    { ray \in Rays : ray.maxt = Infinity /\ ray.mint \in {0, Epsilon} }

\* variant: the call marks the record of the primitive it hit
ConcurrentRayIntersect_MarksRecord(ray) ==
    /\ isBuilt
    /\ Traced < MaxTraced
    /\ other.pc = "idle"
    /\ other' = [pc |-> "done", op |-> "rayIntersect", ray |-> ray,
                 out |-> rayIntersect(ray)]
    /\ stats' = [stats EXCEPT !.raysTraced = @ + 1]
    /\ m_triAccel' = IF rayIntersect(ray).hit
                     THEN [m_triAccel EXCEPT
                            ![CHOOSE g \in DOMAIN m_triAccel :
                                /\ m_triAccel[g].shapeIndex = rayIntersect(ray).shapeIndex
                                /\ rayIntersect(ray).primIndex
                                     \in {m_triAccel[g].primIndex, KNoTriangleFlag}].k
                                = KNoTriangleFlag]
                     ELSE m_triAccel
    /\ UNCHANGED << m_shapes, m_shapeMap, m_triangleFlag, m_nodes, m_indices,
                    m_aabb, refCount, buildCalls, buildIdx, alive, query, lastCall,
                    m_pool, render >>

\* a second thread runs rayIntersect(ray, its) on its own Intersection
ConcurrentRayIntersect(ray) ==
    /\ isBuilt
    /\ Traced < MaxTraced
    /\ other.pc = "idle"
    /\ other' = [pc |-> "done", op |-> "rayIntersect", ray |-> ray,
                 out |-> rayIntersect(ray)]
    /\ stats' = [stats EXCEPT !.raysTraced = @ + 1]
    /\ UNCHANGED << regVars, query, lastCall, m_pool, render >>

\* the second thread has read its output
ConcurrentReturn ==
    /\ other.pc = "done"
    /\ other' = NoQuery
    /\ UNCHANGED << regVars, query, lastCall, stats, m_pool, render >>

NextConcurrent ==
    \/ \E ray \in ConcurrentRays : QRayIntersect(ray)
    \/ \E ray \in ConcurrentRays : QRayIntersectLite(ray)
    \/ \E ray \in ConcurrentRays : QRayIntersectShadow(ray)
    \/ \E pkt \in TerminationPackets : QPacketBegin(pkt)
    \/ QPacketInner
    \/ QPacketLeaf
    \/ \E pkt \in TerminationPackets : QPacketIncoherent(pkt)
    \/ \E e \in Ellipsoids : QEllipsoidBegin(e)
    \/ QEllipsoidVisit
    \/ QReturn
    \/ \E ray \in ConcurrentRays : ConcurrentRayIntersect(ray)
    \/ ConcurrentReturn

SpecConcurrent ==
    InitBuilt /\ [][NextConcurrent]_vars

NextRay ==
    \/ \E ray \in Rays : QRayIntersect(ray)
    \/ \E ray \in Rays : QRayIntersectLite(ray)
    \/ \E ray \in Rays : QRayIntersectShadow(ray)
    \/ QReturn

SpecRay ==
    InitBuilt /\ [][NextRay]_vars

-----------------------------------------------------------------------------

Next ==
    \/ \E shape \in Shapes : AddShape(shape)
    \/ \E plan \in Plans : Build(plan)
    \/ Destroy

Spec ==
    Init /\ [][Next]_vars

-----------------------------------------------------------------------------
(* fillPositionsAndLocations on its own: the boxes, locations, split values, *)
(* axes and directions it is called with                                     *)

\* the values of PLocation
Locations ==
    {"ETBD", "EInside", "EOutside"}

FillBoxes ==
    { Box(<<0, 0, 0>>, <<64, 64, 64>>),
      Box(<<-16, 8, 32>>, <<48, 40, 96>>) }

FillLocations ==
    { AllTBD,
      [i \in 1 .. 8 |-> "EInside"],
      [i \in 1 .. 8 |-> IF i % 2 = 0 THEN "EInside" ELSE "EOutside"],
      [i \in 1 .. 8 |-> IF i <= 4 THEN "EOutside" ELSE "ETBD"] }

\* split planes that cut the box on the given axis
FillSplits(box, axis) ==
    { box.min[axis + 1] + 8, box.max[axis + 1] - 4 }

\* one call of fillPositionsAndLocations(P, L, PNew, LNew, splitValue, axis,
\* direction) on the corners of box
QFill(box, L, splitValue, axis, direction) ==
    /\ isBuilt
    /\ query.pc = "idle"
    /\ LET new == fillPositionsAndLocations(BoxCorners(box), L, splitValue,
                                            axis, direction)
       IN  query' = [pc |-> "done", op |-> "fillPositionsAndLocations",
                     box |-> box, P |-> BoxCorners(box), L |-> L,
                     splitValue |-> splitValue, axis |-> axis,
                     direction |-> direction, PNew |-> new.P, LNew |-> new.L]
    /\ lastCall' = QueryCall
    /\ UNCHANGED << regVars, stats, other, m_pool, render >>

NextFill ==
    \/ \E box \in FillBoxes, L \in FillLocations, axis \in Axes, direction \in {0, 1} :
          \E splitValue \in FillSplits(box, axis) :
            QFill(box, L, splitValue, axis, direction)
    \/ QReturn

SpecFill ==
    InitBuilt /\ [][NextFill]_vars

-----------------------------------------------------------------------------
(* BDPTRenderer (bdpt_proc.cpp).  process() renders one work unit sample by *)
(* sample; evaluate() connects the two subpaths of one sample.  m_pool      *)
(* counts the edges and vertices it has handed out; a subpath is known by   *)
(* the number of its vertices and edges.                                    *)

\* m_hilbertCurve.getPointCount() of a work unit is at most this
MaxPointCount ==
    2

\* m_sampler->getSampleCount() is at most this
MaxSampleCount ==
    2

\* a subpath holds at most this many vertices, its supernode included
MaxVertexCount ==
    3

\* MemoryPool::allocEdge
allocEdge(pool) ==
    [pool EXCEPT !.edges = @ + 1]

\* MemoryPool::allocVertex
allocVertex(pool) ==
    [pool EXCEPT !.vertices = @ + 1]

\* MemoryPool::release(PathEdge *)
releaseEdge(pool) ==
    [pool EXCEPT !.edges = @ - 1]

\* MemoryPool::release(PathVertex *)
releaseVertex(pool) ==
    [pool EXCEPT !.vertices = @ - 1]

\* MemoryPool::unused
unused(pool) ==
    pool.edges = 0 /\ pool.vertices = 0

\* a Path before initialize and after release
NoPath ==
    [vertexCount |-> 0, edgeCount |-> 0]

\* Path::initialize and the random walk: n vertices, the supernode first,
\* joined by n-1 edges, all of them taken from the pool
WalkedPath(n) ==
    [vertexCount |-> n, edgeCount |-> n - 1]

\* the pool after the vertices and edges of path were taken from it
PoolAfterWalk(pool, path) ==
    [edges |-> pool.edges + path.edgeCount,
     vertices |-> pool.vertices + path.vertexCount]

\* Path::release(pool): every vertex and edge of the path goes back
PathRelease(pool, path) ==
    [edges |-> pool.edges - path.edgeCount,
     vertices |-> pool.vertices - path.vertexCount]

\* m_config and the decomposition type of the work result
Configurations ==
    [maxDepth : {-1, 2}, lightImage : BOOLEAN, sampleDirect : BOOLEAN,
     decompositionType : {"ESteadyState", "ETransient", "ETransientEllipse", "EBounce"}]

\* BDPTRenderer::BDPTRenderer: the pool is empty, no work unit is running
InitRender ==
    /\ m_shapes = << >>
    /\ m_shapeMap = << 0 >>
    /\ m_triangleFlag = << >>
    /\ m_triAccel = << >>
    /\ m_nodes = << >>
    /\ m_indices = << >>
    /\ m_aabb = [valid |-> FALSE, min |-> <<0, 0, 0>>, max |-> <<0, 0, 0>>]
    /\ refCount = [s \in Shapes |-> 0]
    /\ buildCalls = 0
    /\ buildIdx = 0
    /\ lastCall = NoCall
    /\ query = NoQuery
    /\ alive = TRUE
    /\ stats = NoStats
    /\ other = NoQuery
    /\ m_pool = EmptyPool
    /\ \E config \in Configurations : render = [pc |-> "idle", config |-> config]

\* lines 66-95 of process(): the work unit has pointCount pixels and the
\* sampler sampleCount samples per pixel
ProcessBegin(pointCount, sampleCount) ==
    /\ render.pc = "idle"
    /\ render' = [pc |-> "samples", config |-> render.config,
                  pointCount |-> pointCount, sampleCount |-> sampleCount,
                  i |-> 0, j |-> 0, stop |-> FALSE,
                  emitterSubpath |-> NoPath, sensorSubpath |-> NoPath,
                  s |-> 0, t |-> 0, minT |-> 0,
                  last |-> "none", evaluated |-> 0]
    /\ UNCHANGED << regVars, lastCall, query, stats, other, m_pool >>

\* the scheduler sets the flag that process() reads through 'const bool &stop'
RaiseStop ==
    /\ render.pc \notin {"idle", "failed"}
    /\ ~render.stop
    /\ render' = [render EXCEPT !.stop = TRUE]
    /\ UNCHANGED << regVars, lastCall, query, stats, other, m_pool >>

\* lines 97-103: the heads of the two loops and the test of the stop flag
ProcessLoop ==
    /\ render.pc = "samples"
    /\ render' = IF render.i = render.pointCount
                 THEN [render EXCEPT !.pc = "assert"]
                 ELSE IF render.j = render.sampleCount \/ render.stop
                 THEN [render EXCEPT !.i = @ + 1, !.j = 0]
                 ELSE [render EXCEPT !.pc = "walk"]
    /\ UNCHANGED << regVars, lastCall, query, stats, other, m_pool >>

\* lines 109-115: both subpaths are initialized and walked; the emitter
\* subpath ends up with ne vertices, the sensor subpath with ns
StartSubpaths(ne, ns) ==
    /\ render.pc = "walk"
    /\ render' = [render EXCEPT !.pc = "evaluate",
                                !.emitterSubpath = WalkedPath(ne),
                                !.sensorSubpath = WalkedPath(ns)]
    /\ m_pool' = PoolAfterWalk(PoolAfterWalk(m_pool, WalkedPath(ne)), WalkedPath(ns))
    /\ UNCHANGED << regVars, lastCall, query, stats, other >>

\* variant: only one connection edge is taken from the pool
EvaluateBegin_OneEdge ==
    /\ render.pc = "evaluate"
    /\ m_pool' = allocVertex(allocEdge(m_pool))
    /\ render' = [render EXCEPT !.pc = "outer",
                                !.s = render.emitterSubpath.vertexCount - 1]
    /\ UNCHANGED << regVars, lastCall, query, stats, other >>

\* lines 134-218 of evaluate(): connectionEdge1, connectionEdge2 and
\* connectionVertex are taken from the pool, s starts at the last vertex of
\* the emitter subpath
EvaluateBegin ==
    /\ render.pc = "evaluate"
    /\ m_pool' = allocVertex(allocEdge(allocEdge(m_pool)))
    /\ render' = [render EXCEPT !.pc = "outer",
                                !.s = render.emitterSubpath.vertexCount - 1]
    /\ UNCHANGED << regVars, lastCall, query, stats, other >>

\* lines 221-224: the range of t for a given s
MinT(config, s) ==
    Max2(2 - s, IF config.lightImage THEN 0 ELSE 2)

MaxT(config, sensorSubpath, s) ==
    IF config.maxDepth # -1
    THEN Min2(sensorSubpath.vertexCount - 1, config.maxDepth + 1 - s)
    ELSE sensorSubpath.vertexCount - 1

\* lines 218-226: the head of the loop over s
EvaluateOuter ==
    /\ render.pc = "outer"
    /\ render' = IF render.s >= 0
                 THEN [render EXCEPT
                          !.pc = "inner",
                          !.minT = MinT(render.config, render.s),
                          !.t = MaxT(render.config, render.sensorSubpath, render.s)]
                 ELSE [render EXCEPT !.pc = "putSample"]
    /\ UNCHANGED << regVars, lastCall, query, stats, other, m_pool >>

\* lines 510-618: the connection of vs and vt; each "continue" is named by
\* its line, "splat" is a pass that reaches the end of the loop body
Connection(t) ==
    {"continue514", "splat"} \cup (IF t = 1 THEN {"continue558"} ELSE {})

\* lines 227-618: the ways one pass of the loop over t can go.  Vertex 0 of
\* a subpath is its supernode.
BodyOutcomes(config, s, t) ==
    LET ellipse == config.decompositionType = "ETransientEllipse"
    IN  IF s = 0 THEN {"continue260"}
        ELSE IF t = 0 THEN {"continue276"}
        ELSE IF config.sampleDirect /\ ((t = 1 /\ s > 1) \/ (s = 1 /\ t > 1))
        THEN IF s = 1
             THEN {"continue300", "continue310"}
                    \cup (IF ellipse THEN {"continue334", "noConnection"}
                          ELSE Connection(t))
             ELSE {"continue352", "continue362"}
                    \cup (IF ellipse THEN {"continue385", "noConnection"}
                          ELSE Connection(t))
        ELSE {"continue408"}
                \cup (IF ellipse THEN {"continue471", "continue474"}
                      ELSE Connection(t))

\* lines 226-618: one pass of the loop over t, or its end
EvaluateInner ==
    /\ render.pc = "inner"
    /\ IF render.t >= render.minT
       THEN \E outcome \in BodyOutcomes(render.config, render.s, render.t) :
                render' = [render EXCEPT !.last = outcome, !.t = @ - 1]
       ELSE render' = [render EXCEPT !.pc = "outer", !.s = @ - 1]
    /\ UNCHANGED << regVars, lastCall, query, stats, other, m_pool >>

\* lines 620-631: the sample is stored and the three connection objects go
\* back to the pool
EvaluateEnd ==
    /\ render.pc = "putSample"
    /\ m_pool' = releaseVertex(releaseEdge(releaseEdge(m_pool)))
    /\ render' = [render EXCEPT !.pc = "release", !.evaluated = @ + 1]
    /\ UNCHANGED << regVars, lastCall, query, stats, other >>

\* lines 119-122 of process(): both subpaths are released, the sampler
\* advances
ReleaseSubpaths ==
    /\ render.pc = "release"
    /\ m_pool' = PathRelease(PathRelease(m_pool, render.emitterSubpath),
                             render.sensorSubpath)
    /\ render' = [render EXCEPT !.pc = "samples", !.j = @ + 1,
                                !.emitterSubpath = NoPath,
                                !.sensorSubpath = NoPath]
    /\ UNCHANGED << regVars, lastCall, query, stats, other >>

\* lines 130-132: Assert(m_pool.unused()) and the return of process()
ProcessEnd ==
    /\ render.pc = "assert"
    /\ render' = IF unused(m_pool)
                 THEN [pc |-> "idle", config |-> render.config]
                 ELSE [render EXCEPT !.pc = "failed"]
    /\ UNCHANGED << regVars, lastCall, query, stats, other, m_pool >>

NextRender ==
    \/ \E pointCount \in 1 .. MaxPointCount, sampleCount \in 1 .. MaxSampleCount :
            ProcessBegin(pointCount, sampleCount)
    \/ RaiseStop
    \/ ProcessLoop
    \/ \E ne \in 1 .. MaxVertexCount, ns \in 2 .. MaxVertexCount :
            StartSubpaths(ne, ns)
    \/ EvaluateBegin
    \/ EvaluateOuter
    \/ EvaluateInner
    \/ EvaluateEnd
    \/ ReleaseSubpaths
    \/ ProcessEnd

SpecRender ==
    InitRender /\ [][NextRender]_vars

-----------------------------------------------------------------------------
(* Properties of the registry and of build() *)

\* what addShape records for one shape
Contribution(shape) ==
    IF derivesFromTriMesh(shape) THEN getTriangleCount(shape) ELSE 1

RECURSIVE SumContributions(_, _)
SumContributions(shapes, n) ==
    IF n = 0 THEN 0 ELSE SumContributions(shapes, n - 1) + Contribution(shapes[n])

\* a build() call has returned and no further build() call was made
BuiltOnce ==
    alive /\ isBuilt /\ buildCalls = 1

\* C5: after build() the number of records written to the accelerator table
\* (idx, and the length of the table) equals the sum of the contributions that
\* addShape recorded, which is the primitive count; KDAssert(idx == primCount)
\* never fails.
C5_PrimitiveCount ==
    /\ lastCall.outcome # "KDAssertFailed"
    /\ (alive /\ isBuilt) =>
        /\ buildIdx = SumContributions(m_shapes, Len(m_shapes))
        /\ Len(m_triAccel) = buildIdx
    /\ BuiltOnce => getPrimitiveCount(m_shapeMap) = buildIdx

C5_Witness ==
    /\ BuiltOnce
    /\ lastCall = [op |-> "build", arg |-> "", outcome |-> "ok"]
    /\ \E i, j \in DOMAIN m_shapes : m_triangleFlag[i] /\ ~m_triangleFlag[j]
    /\ buildIdx >= 3

\* C6: after build() the Shape Map starts with 0, is non-decreasing, its entry
\* i is the number of primitives of shapes 0..i-1, and its last entry is the
\* total primitive count.
C6_ShapeMapPrefixSums ==
    BuiltOnce =>
        /\ Len(m_shapeMap) = Len(m_shapes) + 1
        /\ m_shapeMap[1] = 0
        /\ \A i \in 1 .. Len(m_shapes) : m_shapeMap[i] <= m_shapeMap[i + 1]
        /\ \A i \in 0 .. Len(m_shapes) :
                m_shapeMap[i + 1] = SumContributions(m_shapes, i)
        /\ Last(m_shapeMap) = Len(m_triAccel)

C6_Witness ==
    /\ BuiltOnce
    /\ Len(m_shapes) >= 3
    /\ \E i \in 2 .. Len(m_shapes) :
            /\ m_shapeMap[i] > 0
            /\ m_shapeMap[i + 1] > m_shapeMap[i] + 1

\* C7: after build(), record g names a shape s in [0, numShapes) with
\* shapeMap[s] <= g < shapeMap[s+1]; for a mesh the record is a triangle record
\* with local index g - shapeMap[s] (and that triangle's geometry), for an
\* atomic shape it is the sentinel record; records come in registration order.
C7_AcceleratorRecords ==
    BuiltOnce =>
        /\ \A g \in 0 .. (Len(m_triAccel) - 1) :
            LET rec == m_triAccel[g + 1]
                s == rec.shapeIndex
            IN  /\ s \in 0 .. (Len(m_shapes) - 1)
                /\ m_shapeMap[s + 1] <= g
                /\ g < m_shapeMap[s + 2]
                /\ m_triangleFlag[s + 1] =>
                        /\ rec.k # KNoTriangleFlag
                        /\ rec.primIndex = g - m_shapeMap[s + 1]
                        /\ rec.geom = getTriangles(m_shapes[s + 1])[rec.primIndex + 1]
                /\ ~m_triangleFlag[s + 1] =>
                        /\ rec.k = KNoTriangleFlag
                        /\ rec.geom = NoGeom
        /\ \A g \in 1 .. (Len(m_triAccel) - 1) :
                m_triAccel[g].shapeIndex <= m_triAccel[g + 1].shapeIndex
        /\ \A s \in 0 .. (Len(m_shapes) - 1) :
                Cardinality({g \in DOMAIN m_triAccel : m_triAccel[g].shapeIndex = s})
                    = Contribution(m_shapes[s + 1])

C7_Witness ==
    /\ BuiltOnce
    /\ \E g, h \in DOMAIN m_triAccel :
            /\ m_triAccel[g].k = KNoTriangleFlag
            /\ m_triAccel[h].k # KNoTriangleFlag
            /\ m_triAccel[h].primIndex = 1
            /\ m_triAccel[h].shapeIndex >= 1
            /\ g < h

RegistryUnchanged ==
    /\ m_shapes' = m_shapes
    /\ m_shapeMap' = m_shapeMap
    /\ m_triangleFlag' = m_triangleFlag
    /\ refCount' = refCount

\* C8: an addShape call on a built index fails its precondition and leaves the
\* shape list, the Shape Map, the flags and the reference counts as they were.
C8_AddShapeAfterBuild ==
    [][(isBuilt /\ lastCall'.op = "addShape") =>
            (lastCall'.outcome = "AssertFailed" /\ RegistryUnchanged)]_vars

C8_Witness ==
    /\ isBuilt
    /\ lastCall.op = "addShape"
    /\ lastCall.outcome = "AssertFailed"
    /\ ~isCompound(lastCall.arg)
    /\ Len(m_shapes) >= 1

\* C9: an addShape call with a compound shape fails and registers nothing, so
\* no compound shape is ever in the shape list that build() walks.
C9_CompoundRejected ==
    /\ [][(lastCall'.op = "addShape" /\ isCompound(lastCall'.arg)) =>
            (lastCall'.outcome # "ok" /\ RegistryUnchanged)]_vars
    /\ [](\A i \in DOMAIN m_shapes : ~isCompound(m_shapes[i]))

C9_Witness ==
    /\ ~isBuilt
    /\ lastCall = [op |-> "addShape", arg |-> "group", outcome |-> "Error"]
    /\ Len(m_shapes) >= 1

\* C10: a successful addShape on an unbuilt index appends one Shape Map entry
\* (the triangle count of a mesh, 1 otherwise), one flag and one shape; before
\* build() the Shape Map starts with 0 and has one entry more than there are
\* shapes, and there are as many flags as shapes.
C10_AddShapeAppends ==
    /\ [][(~isBuilt /\ lastCall'.op = "addShape" /\ lastCall'.outcome = "ok") =>
            LET shape == lastCall'.arg
            IN  /\ m_shapeMap' = Append(m_shapeMap,
                        IF derivesFromTriMesh(shape) THEN getTriangleCount(shape) ELSE 1)
                /\ m_triangleFlag' = Append(m_triangleFlag, derivesFromTriMesh(shape))
                /\ m_shapes' = Append(m_shapes, shape)]_vars
    /\ [](~isBuilt =>
            /\ m_shapeMap[1] = 0
            /\ Len(m_shapeMap) = Len(m_shapes) + 1
            /\ Len(m_triangleFlag) = Len(m_shapes))

C10_Witness ==
    /\ ~isBuilt
    /\ lastCall.op = "addShape"
    /\ lastCall.outcome = "ok"
    /\ derivesFromTriMesh(lastCall.arg)
    /\ getTriangleCount(lastCall.arg) = 2
    /\ Len(m_shapes) >= 2
    /\ ~m_triangleFlag[1]

-----------------------------------------------------------------------------
(* Properties of the scalar queries *)

\* the geometry of global primitive g, read from the registered shapes
SceneGeom(g) ==
    PrimGeom(m_shapes, m_shapeMap, m_triangleFlag, g)

\* brute force: the primitives the ray meets at a parameter in [lo, hi]
HitSet(ray, lo, hi) ==
    {g \in 0 .. (Len(m_triAccel) - 1) : PatchHit(SceneGeom(g), ray, lo, hi)}

IsNearest(ray, lo, hi, g) ==
    /\ g \in HitSet(ray, lo, hi)
    /\ \A h \in HitSet(ray, lo, hi) : PatchT(SceneGeom(g), ray) <= PatchT(SceneGeom(h), ray)

\* the global primitive an intersection cache names
CachePrim(out) ==
    m_shapeMap[out.shapeIndex + 1]
        + (IF out.primIndex = KNoTriangleFlag THEN 0 ELSE out.primIndex)

SameAsBruteForce(out, ray, lo, hi) ==
    /\ out.hit <=> HitSet(ray, lo, hi) # {}
    /\ out.hit =>
        /\ IsNearest(ray, lo, hi, CachePrim(out))
        /\ out.t = PatchT(SceneGeom(CachePrim(out)), ray)

\* the lower bound the nearest-hit query searches from
EffectiveMinT(ray) ==
    IF ray.mint = Epsilon
    THEN (Epsilon * Max2(MaxAbs3(ray.o), Epsilon)) \div One
    ELSE ray.mint

\* C1 as claimed: rayIntersect(ray, its) agrees with a brute-force test of the
\* ray against every primitive within [ray.mint, ray.maxt].
C1_Original ==
    (query.pc = "done" /\ query.op = "rayIntersect") =>
        SameAsBruteForce(query.out, query.ray, query.ray.mint, query.ray.maxt)

\* C1: rayIntersect(ray, its) reports a hit iff lo < ray.maxt and some
\* primitive is met at a parameter in [lo, ray.maxt], where lo is ray.mint, or
\* Epsilon * max(|o.x|, |o.y|, |o.z|, Epsilon) when ray.mint is Epsilon; on a
\* hit the reported primitive and distance are those of the closest such
\* intersection.
C1_NearestHitFromEffectiveMinT ==
    (query.pc = "done" /\ query.op = "rayIntersect") =>
        LET ray == query.ray
            lo == EffectiveMinT(ray)
        IN  IF lo < ray.maxt
            THEN SameAsBruteForce(query.out, ray, lo, ray.maxt)
            ELSE ~query.out.hit

C1_Witness ==
    /\ query.pc = "done"
    /\ query.op = "rayIntersect"
    /\ query.out.hit
    /\ query.ray.mint = Epsilon
    /\ Cardinality(HitSet(query.ray, EffectiveMinT(query.ray), query.ray.maxt)) >= 2
    /\ m_nodes[1].kind = "inner"
    /\ m_triAccel[CachePrim(query.out) + 1].k = KNoTriangleFlag

\* C2: the occlusion query answers true iff the nearest-hit query on the same
\* ray and tree reports a hit.
C2_OcclusionIffNearestHit ==
    (query.pc = "done" /\ query.op = "rayIntersectShadow") =>
        (query.out.hit <=> rayIntersect(query.ray).hit)

-----------------------------------------------------------------------------
(* Properties of the packet queries *)

\* what the caller reads from lane i of an Intersection4
LaneHit(its, i) ==
    its[i].t # Infinity

\* C3: for a coherent packet, rayIntersectPacket leaves in every lane the
\* outcome of rayIntersect(ray, its) on that lane's ray and interval: the same
\* hit or no hit and, on a hit, the same t, shape index and primitive index.
C3_PacketMatchesScalar ==
    (query.pc = "done" /\ query.op = "rayIntersectPacket") =>
        \A i \in Lanes :
            LET scalar == rayIntersect(LaneRay(query.packet, i))
            IN  /\ LaneHit(query.its, i) <=> scalar.hit
                /\ scalar.hit =>
                    /\ query.its[i].t = scalar.t
                    /\ query.its[i].shapeIndex = scalar.shapeIndex
                    /\ query.its[i].primIndex = scalar.primIndex

\* C4: rayIntersectPacketIncoherent leaves in every lane the outcome of
\* rayIntersect(ray, its) on that lane's ray and interval: the same hit or no
\* hit and, on a hit, the same t, shape index, primitive index, u and v.
C4_IncoherentMatchesScalar ==
    (query.pc = "done" /\ query.op = "rayIntersectPacketIncoherent") =>
        \A i \in Lanes :
            LET scalar == rayIntersect(LaneRay(query.packet, i))
            IN  /\ LaneHit(query.its, i) <=> scalar.hit
                /\ scalar.hit =>
                    /\ query.its[i].t = scalar.t
                    /\ query.its[i].shapeIndex = scalar.shapeIndex
                    /\ query.its[i].primIndex = scalar.primIndex
                    /\ query.its[i].u = scalar.u
                    /\ query.its[i].v = scalar.v

-----------------------------------------------------------------------------
(* Reference counts *)

\* C11: while the index lives every shape's reference count is its value
\* before registration plus one per successful addShape of that shape, and
\* after the destructor every count is back at that value, whether or not
\* build() ran and also for shapes registered several times
C11_RefCountBalanced ==
    \E c \in InitialRefCounts :
        \A s \in Shapes :
            refCount[s] = c + (IF alive THEN Registrations(m_shapes, s) ELSE 0)

\* the index was destroyed with one shape registered twice
C11_Witness ==
    /\ ~alive
    /\ \E s \in Shapes : Registrations(m_shapes, s) >= 2
    /\ \E s \in Shapes : Registrations(m_shapes, s) = 1
    /\ buildCalls = 0
    /\ C11_RefCountBalanced

-----------------------------------------------------------------------------
(* The search interval of the scalar entry points *)

ScalarOps ==
    {"rayIntersect", "rayIntersectLite", "rayIntersectShadow"}

\* C12: in each of the three scalar entry points a ray.mint other than
\* Epsilon is used unscaled: the lower bound handed to the traversal core is
\* max(ray.mint, box entry parameter)
C12_CustomMinTUnscaled ==
    (/\ query.pc = "done"
     /\ query.op \in ScalarOps
     /\ query.interval.box
     /\ query.ray.mint # Epsilon)
        => query.interval.mint
             = Max2(query.ray.mint, AabbRayIntersect(m_aabb, query.ray).nearT)

\* the lightweight entry point searched from a caller-supplied mint that
\* lies inside the box and that the scaling would have changed
C12_Witness ==
    /\ query.pc = "done"
    /\ query.op = "rayIntersectLite"
    /\ query.interval.box
    /\ query.ray.mint = 100
    /\ query.interval.mint = 100
    /\ FMul(query.ray.mint, MaxAbs3(query.ray.o)) # 100
    /\ query.out.hit

-----------------------------------------------------------------------------
(* The Shape Map after build() *)

\* C14: once build() has returned, no later operation on the index changes an
\* entry or the length of the Shape Map
C14_ShapeMapImmutable ==
    [][isBuilt => m_shapeMap' = m_shapeMap]_vars

-----------------------------------------------------------------------------
(* The region query *)

EllipsoidDone ==
    /\ query.pc = "done"
    /\ query.op = "ellipsoidIntersect"

\* the leaf the descent ended in, if it reached one
AtLeaf ==
    m_nodes[Last(query.path)].kind = "leaf"

LeafSize ==
    m_nodes[Last(query.path)].end - m_nodes[Last(query.path)].start

Contains(box, geom) ==
    \A a \in Axes :
        /\ Coord(box.min, a) <= Coord(geom.min, a)
        /\ Coord(geom.max, a) <= Coord(box.max, a)

\* global index g is the one primitive of the scene that meets the region,
\* and the region contains it
OnlyPrimitiveIn(e, g) ==
    /\ Contains(e.body, SceneGeom(g))
    /\ \A h \in 0 .. (getPrimitiveCount(m_shapeMap) - 1) :
            h # g => ~Overlaps(SceneGeom(h), e.body)

\* C15: when the region contains exactly one primitive of the scene, the
\* query returns a hit that names this primitive, whatever the sampler's
\* outcomes are
C15_ReturnsTheOnlyPrimitive ==
    \A g \in 0 .. (getPrimitiveCount(m_shapeMap) - 1) :
        (/\ query.pc \in {"done", "hung", "crashed"}
         /\ query.op = "ellipsoidIntersect"
         /\ OnlyPrimitiveIn(query.e, g))
            => /\ query.pc = "done"
               /\ query.hit
               /\ query.cache.shapeIndex = findShape(m_shapeMap, g)
               /\ query.cache.primIndex
                    = g - m_shapeMap[findShape(m_shapeMap, g) + 1]

\* C17: the weight returned with a hit found in a leaf of n primitives below
\* d internal nodes is the exact test's weight times 0.5 for each of the d
\* sides chosen, divided by n
C17_WeightCountsEveryChoice ==
    (EllipsoidDone /\ query.hit /\ LeafSize > 0)
        => query.value = Halved(ExactWeight, Len(query.path) - 1) \div LeafSize

\* the nodes visited form one path from the root
SinglePath ==
    /\ query.path[1] = 1
    /\ \A i \in 1 .. (Len(query.path) - 1) :
            /\ m_nodes[query.path[i]].kind = "inner"
            /\ query.path[i + 1] \in {2 * query.path[i], 2 * query.path[i] + 1}

RECURSIVE TrueNodeBox(_)
TrueNodeBox(n) ==
    IF n = 1 THEN m_aabb
    ELSE LET pb == TrueNodeBox(n \div 2)
             parent == m_nodes[n \div 2]
         IN  IF n % 2 = 0
             THEN [pb EXCEPT !.max[parent.axis + 1] = parent.split]
             ELSE [pb EXCEPT !.min[parent.axis + 1] = parent.split]

BoxesOverlap(b1, b2) ==
    \A a \in Axes :
        /\ Coord(b1.min, a) <= Coord(b2.max, a)
        /\ Coord(b1.max, a) >= Coord(b2.min, a)

\* C19: when the box of a visited node does not overlap the ellipsoid's
\* bounding box, the descent ends at that node and no primitive is tested
C19_RejectsByNodeBox ==
    (/\ query.pc \in {"done", "hung", "crashed"}
     /\ query.op = "ellipsoidIntersect")
        => \A i \in DOMAIN query.path :
                ~BoxesOverlap(TrueNodeBox(query.path[i]), query.e.aabb)
                    => /\ i = Len(query.path)
                       /\ query.pc = "done"
                       /\ query.tested = << >>

-----------------------------------------------------------------------------
(* Packets that are not coherent *)

Coherent(pkt) ==
    \A i \in Lanes : \A a \in Axes :
        (Coord(pkt.d[i], a) < 0) <=> (Coord(pkt.d[1], a) < 0)

\* C16: for a packet whose rays do not share their direction signs,
\* rayIntersectPacket still leaves in every lane the outcome of
\* rayIntersect(ray, its) on that lane's ray: the same hit or no hit and, on a
\* hit, the same t, shape index and primitive index
C16_IncoherentSignsStillCorrect ==
    (/\ query.pc = "done"
     /\ query.op = "rayIntersectPacket"
     /\ ~Coherent(query.packet)) =>
        \A i \in Lanes :
            LET scalar == rayIntersect(LaneRay(query.packet, i))
            IN  /\ LaneHit(query.its, i) <=> scalar.hit
                /\ scalar.hit =>
                    /\ query.its[i].t = scalar.t
                    /\ query.its[i].shapeIndex = scalar.shapeIndex
                    /\ query.its[i].primIndex = scalar.primIndex

-----------------------------------------------------------------------------
(* Termination of the packet traversal *)

\* the interval of lane i was empty when the traversal started
InitiallyEmpty(pkt, i) ==
    LET box == AabbRayIntersect(m_aabb, LaneRay(pkt, i))
    IN  Max2(box.nearT, pkt.mint[i]) > Min2(box.farT, pkt.maxt[i])

\* lane i has a recorded hit or had nothing to search
Resolved(q, i) ==
    LaneHit(q.its, i) \/ InitiallyEmpty(q.packet, i)

PacketRunning ==
    query.pc = "loop" /\ query.op = "rayIntersectPacket"

PacketDone ==
    query.pc = "done" /\ query.op = "rayIntersectPacket"

\* C20: rayIntersectPacket terminates, it returns only when every lane is
\* resolved or no far child is left on the stack, and it goes on to the next
\* stack entry only while some lane is unresolved
C20_PacketTerminates ==
    /\ [](PacketDone =>
            \/ \A i \in Lanes : Resolved(query, i)
            \/ query.stack = << >>)
    /\ [][(PacketRunning /\ m_nodes[query.currNode].kind = "leaf" /\ PacketRunning')
            => /\ \E i \in Lanes : ~Resolved(query', i)
               /\ query.stack # << >>
               /\ query'.stack = SubSeq(query.stack, 1, Len(query.stack) - 1)]_vars
    /\ (PacketRunning ~> PacketDone)

\* the traversal returned with a far child still on the stack because every
\* lane was resolved, two of them by a hit
C20_Witness ==
    /\ PacketDone
    /\ query.stack # << >>
    /\ \A i \in Lanes : Resolved(query, i)
    /\ \E i, j \in Lanes : i # j /\ LaneHit(query.its, i) /\ LaneHit(query.its, j)
    /\ \E i \in Lanes : ~InitiallyEmpty(query.packet, i)

-----------------------------------------------------------------------------
(* Concurrent queries *)

\* what each call in flight has returned is what it returns when it runs alone
ResultsAsAlone ==
    /\ PacketDone => query.its = rayIntersectPacket(query.packet)
    /\ (query.pc = "done" /\ query.op = "rayIntersect")
            => query.out = rayIntersect(query.ray)
    /\ (query.pc = "done" /\ query.op = "rayIntersectLite")
            => query.out = rayIntersectLite(query.ray)
    /\ (query.pc = "done" /\ query.op = "rayIntersectShadow")
            => query.out.hit = rayIntersectShadow(query.ray)
    /\ other.pc = "done" => other.out = rayIntersect(other.ray)

\* C13 as stated: no step of a traversal changes the index or any other
\* process-wide state, and every call returns what it returns alone
C13_Original ==
    /\ [][UNCHANGED << regVars, stats >>]_vars
    /\ []ResultsAsAlone

\* at most one statistics counter moves, and it moves up by one
CountsOneQuery ==
    /\ stats'.raysTraced \in {stats.raysTraced, stats.raysTraced + 1}
    /\ stats'.shadowRaysTraced \in {stats.shadowRaysTraced, stats.shadowRaysTraced + 1}
    /\ stats'.coherentPackets \in {stats.coherentPackets, stats.coherentPackets + 1}
    /\ stats'.incoherentPackets \in {stats.incoherentPackets, stats.incoherentPackets + 1}
    /\ Traced' \in {Traced, Traced + 1}

\* C13: no step of a traversal changes the index (shapes, Shape Map, flags,
\* Accelerator Table, nodes, Index Buffer, box); the one piece of shared state
\* a traversal writes is the statistics counter of its entry point, which
\* goes up by one; under every interleaving of two callers every call
\* returns what it returns when it runs alone
C13_IndexUnchangedByQueries ==
    /\ [][UNCHANGED regVars /\ CountsOneQuery]_vars
    /\ []ResultsAsAlone

\* the second thread's call has returned a hit while the first caller's
\* packet traversal is between two passes of its loop with a far child pushed
C13_Witness ==
    /\ PacketRunning
    /\ query.stack # << >>
    /\ \E i \in Lanes : LaneHit(query.its, i)
    /\ other.pc = "done"
    /\ other.out.hit
    /\ stats.raysTraced = 1
    /\ stats.coherentPackets = 1

-----------------------------------------------------------------------------
(* Resolved lanes of a packet *)

\* the entries of the leaf the traversal stands at that lane i's ray hits
\* within the interval its caller gave
LeafHitsOfLane(i) ==
    { entry \in m_nodes[query.currNode].start .. (m_nodes[query.currNode].end - 1) :
        LET kdTri == m_triAccel[m_indices[entry + 1] + 1]
            geom == IF kdTri.k # KNoTriangleFlag THEN kdTri.geom
                    ELSE ShapeGeom(m_shapes[kdTri.shapeIndex + 1])
        IN  PatchHit(geom, LaneRay(query.packet, i),
                     query.packet.mint[i], query.packet.maxt[i]) }

\* C21: in rayIntersectPacket a lane that is resolved when a node is entered
\* (it recorded a hit in a leaf already left, or its interval was empty on
\* entry) is masked out of every test of that node and of every later node,
\* its recorded t, shape index and primitive index never change again, and a
\* lane whose interval was empty on entry never has any output written
C21_ResolvedLanesExcluded ==
    /\ [](PacketRunning =>
            \A i \in Lanes :
                /\ query.itsFound[i] <=> Resolved(query, i)
                /\ query.itsFound[i] => query.masked[i])
    /\ [][\A i \in Lanes :
            (PacketRunning /\ Resolved(query, i))
                => /\ query'.its[i] = query.its[i]
                   /\ query'.itsFound[i]]_vars
    /\ []((PacketRunning \/ PacketDone) =>
            \A i \in Lanes :
                InitiallyEmpty(query.packet, i) => query.its[i] = EmptyLane)

\* the traversal stands at a leaf popped from the stack; one lane recorded
\* its hit in an earlier leaf and its ray also hits an entry of this leaf,
\* one lane had an empty interval on entry, one lane is still searching
C21_Witness ==
    /\ PacketRunning
    /\ m_nodes[query.currNode].kind = "leaf"
    /\ \E i \in Lanes :
        /\ LaneHit(query.its, i)
        /\ LeafHitsOfLane(i) # {}
    /\ \E i \in Lanes : InitiallyEmpty(query.packet, i)
    /\ \E i \in Lanes : ~Resolved(query, i)

-----------------------------------------------------------------------------
(* The three scalar entry points side by side *)

\* C22: for the ray of a scalar query, rayIntersect(ray, its),
\* rayIntersect(ray, t, shape, n, uv) and rayIntersect(ray) derive the same
\* adaptive lower bound from ray.mint and hand the same interval [mint, maxt]
\* to the traversal core, whatever the origin of the ray
C22_SameSearchInterval ==
    (query.pc = "done" /\ query.op \in ScalarOps) =>
        LET ray == query.ray
        IN  /\ AdaptiveMinTLite(ray) = AdaptiveMinT(ray)
            /\ AdaptiveMinTShadow(ray) = AdaptiveMinT(ray)
            /\ query.interval = SearchInterval(ray, AdaptiveMinT(ray))
            /\ query.interval = SearchInterval(ray, AdaptiveMinTLite(ray))
            /\ query.interval = SearchInterval(ray, AdaptiveMinTShadow(ray))

-----------------------------------------------------------------------------
(* Index reads of the region query *)

\* the descent entered the leaf code (line 150) of the node its path ends at
LeafEntered ==
    /\ query.pc \in {"done", "hung", "crashed"}
    /\ query.op = "ellipsoidIntersect"
    /\ AtLeaf
    /\ isBoxCuttingEllipsoid(query.e, query.P, query.L)

\* C23: every position the region query reads from the index buffer at a
\* leaf lies in that leaf's range [start, end); at a leaf whose range is
\* empty the query reads no index, tests no primitive, does not divide by
\* the leaf size and returns no hit
C23_IndexReadsInLeafRange ==
    LeafEntered =>
        LET node == m_nodes[Last(query.path)]
        IN  /\ \A i \in DOMAIN query.tested :
                /\ node.start <= query.tested[i].x
                /\ query.tested[i].x < node.end
                /\ query.tested[i].primIdx = m_indices[query.tested[i].x + 1]
            /\ node.start = node.end =>
                /\ query.pc = "done"
                /\ query.tested = << >>
                /\ ~query.hit
                /\ query.value # Infinity

-----------------------------------------------------------------------------
(* The stack of the packet traversal *)

\* the number of internal nodes above node n
Depth(n) ==
    IF n >= 4 THEN 2 ELSE IF n >= 2 THEN 1 ELSE 0

\* node a is node b or lies above it
AncestorOrSelf(a, b) ==
    \E k \in 0 .. 2 : b \div (2 ^ k) = a

\* the child of inner node c that the packet enters first (line 521)
NearChild(pkt, c) ==
    2 * c + (IF Coord(pkt.d[1], m_nodes[c].axis) < 0 THEN 1 ELSE 0)

\* node a comes before node b in the order near child first, far child after
VisitedBefore(pkt, a, b) ==
    /\ a # b
    /\ \/ AncestorOrSelf(a, b)
       \/ \E c \in NodeIds :
            /\ m_nodes[c].kind = "inner"
            /\ AncestorOrSelf(NearChild(pkt, c), a)
            /\ AncestorOrSelf(getSibling(NearChild(pkt, c)), b)

\* C24: the stack of rayIntersectPacket stays in bounds: stackIndex counts
\* the entries held, is never negative while the loop runs and never
\* exceeds the number of internal nodes above the current node; a pop reads
\* the entry pushed last and removes it, so no entry is popped twice; every
\* entry names a far child that has not been entered yet, and the nodes
\* entered follow the near-first order strictly, so none is visited twice
C24_StackInBounds ==
    /\ [](PacketRunning =>
            /\ query.stackIndex >= 0
            /\ query.stackIndex = Len(query.stack)
            /\ query.stackIndex <= Depth(query.currNode)
            /\ \A k \in DOMAIN query.stack :
                /\ VisitedBefore(query.packet, query.currNode, query.stack[k].node)
                /\ \A j \in DOMAIN query.stack :
                    j < k => VisitedBefore(query.packet, query.stack[k].node,
                                           query.stack[j].node))
    /\ [][(PacketRunning /\ PacketRunning') =>
            /\ VisitedBefore(query.packet, query.currNode, query'.currNode)
            /\ \/ query'.stack = query.stack
               \/ /\ m_nodes[query.currNode].kind = "inner"
                  /\ query.stackIndex < Depth(query'.currNode)
                  /\ query'.stackIndex = query.stackIndex + 1
                  /\ SubSeq(query'.stack, 1, query.stackIndex) = query.stack
                  /\ query'.stack[query'.stackIndex].node
                        = getSibling(query'.currNode)
               \/ /\ m_nodes[query.currNode].kind = "leaf"
                  /\ query.stackIndex >= 1
                  /\ query'.stackIndex = query.stackIndex - 1
                  /\ query'.currNode = query.stack[query.stackIndex].node
                  /\ query'.stack = SubSeq(query.stack, 1, query.stackIndex - 1)]_vars

\* two far children are waiting on the stack while the traversal stands at a
\* leaf two levels below the root
C24_Witness ==
    /\ PacketRunning
    /\ m_nodes[query.currNode].kind = "leaf"
    /\ Depth(query.currNode) = 2
    /\ query.stackIndex = 2
    /\ query.stack[1].node \in {2, 3}
    /\ query.stack[2].node \in 4 .. 7

-----------------------------------------------------------------------------
(* The memory pool of the renderer *)

\* what the two subpaths of the current sample hold
HeldBySubpaths ==
    PoolAfterWalk(PoolAfterWalk(EmptyPool, render.emitterSubpath),
                  render.sensorSubpath)

-----------------------------------------------------------------------------
(* The corners of a child box *)

\* corner i (0..7) has the box's max on the given axis
HasMaxOn(i, axis) ==
    (i \div (2 ^ axis)) % 2 = 1

\* the box of the left (direction 0) or right (direction 1) child
ChildBox(box, axis, splitValue, direction) ==
    IF direction = 0
    THEN [box EXCEPT !.max[axis + 1] = splitValue]
    ELSE [box EXCEPT !.min[axis + 1] = splitValue]

\* C26: fillPositionsAndLocations yields the 8 corners of the child box:
\* for direction 0 the four corners with the parent's max on the axis, for
\* direction 1 the four with the parent's min, get the split value on that
\* axis and the location ETBD; the other four corners keep their position
\* and their location
C26_FillGivesChildCorners ==
    (query.pc = "done" /\ query.op = "fillPositionsAndLocations") =>
        /\ query.PNew = BoxCorners(ChildBox(query.box, query.axis,
                                            query.splitValue, query.direction))
        /\ \A i \in 0 .. 7 :
            IF HasMaxOn(i, query.axis) <=> (query.direction = 0)
            THEN /\ query.PNew[i + 1]
                      = [query.P[i + 1] EXCEPT ![query.axis + 1] = query.splitValue]
                 /\ query.LNew[i + 1] = "ETBD"
            ELSE /\ query.PNew[i + 1] = query.P[i + 1]
                 /\ query.LNew[i + 1] = query.L[i + 1]

====
